---- MODULE Spec2Model ----
(***************************************************************************)
(* School attendance tracker: the relational store (classes, students,    *)
(* attendance), the Express route handlers that read and write it, the     *)
(* front end's db helpers, the chart aggregation and the dashboard rate.   *)
(* Every handler is cut at its awaits: one action per store round trip.    *)
(***************************************************************************)
EXTENDS Integers, Sequences, FiniteSets, TLC

(***************************************************************************)
(* Bounds of the model.                                                    *)
(***************************************************************************)
\* requests issued in one behaviour; they may overlap at every await
MaxRequests == 2
\* rows handed to the chart aggregation
MaxRows == 3
\* Present records, and Absent records, in today's attendance on the dashboard
MaxCount == 23
\* Late records, and Excused records, in today's attendance on the dashboard
MaxOther == 1

\* calendar dates, as day numbers
Dates == {1, 2}
\* student names, as sequences of letter codes ("So", "No")
StudentNames == {<<19, 15>>, <<14, 15>>}
\* class payloads a client submits
ClassPayloads ==
    { [class_name |-> "3A", grade |-> 3],
      [class_name |-> "4A", grade |-> 4],
      [class_name |-> "3A", grade |-> 4] }
\* sizes of a bulk batch
BatchLengths == {1, 2}
\* statuses a client submits in the store model (a subset of the enum)
WriteStatuses == {"Present", "Absent"}

(***************************************************************************)
(* The schema.                                                             *)
(***************************************************************************)
Statuses == {"Present", "Absent", "Late", "Excused"}

VARIABLES
    classes,          \* set of [id, class_name, grade]
    students,         \* set of [id, name, class_id]
    attendance,       \* set of [id, student_id, date, status]
    createdAt,        \* id of an attendance row -> its created_at (DEFAULT now())
    nextClassId,      \* gen_random_uuid() for classes: ids are never reused
    nextStudentId,
    nextAttendanceId,
    reqs,             \* request number -> the request and its position
    rows,             \* input of the chart aggregation
    chartData,        \* its output
    today,            \* today's attendance statuses read by the dashboard
    stats,            \* the dashboard's stats
    store,            \* "reliable": every store call is served; "failing": a call may fail
    failed,           \* the requests one of whose store calls has failed
    bodies,           \* "valid": clients send bodies that pass validation; "any": any body
    received,         \* request number -> the body a validating route received
    fault,            \* request number -> the message of the error its failing store call gets
    nodeEnv           \* process.env.NODE_ENV

storeVars == <<classes, students, attendance, createdAt, nextClassId, nextStudentId, nextAttendanceId>>
pureVars == <<rows, chartData, today, stats>>
envVars == <<store, bodies, fault, nodeEnv>>
vars == <<classes, students, attendance, createdAt, nextClassId, nextStudentId, nextAttendanceId,
          reqs, rows, chartData, today, stats, store, failed, bodies, received, fault, nodeEnv>>

Null == [null |-> TRUE]

Ids(table) == { x.id : x \in table }

(***************************************************************************)
(* The store: PostgREST over the Postgres schema.                          *)
(***************************************************************************)
\* .single(): the row when exactly one row matches, otherwise no data and an error
Single(matching) ==
    IF Cardinality(matching) = 1
    THEN [data |-> CHOOSE x \in matching : TRUE, error |-> FALSE]
    ELSE [data |-> Null, error |-> TRUE]

\* an insert into a students table whose class_id is not a foreign key
InsertStudentUnchecked(studs, cls, id, value) ==
    [error |-> FALSE, table |-> studs \cup {[id |-> id, name |-> value.name, class_id |-> value.class_id]}]

\* students.class_id REFERENCES classes(id)
InsertStudent(studs, cls, id, value) ==
    IF value.class_id \in Ids(cls)
    THEN [error |-> FALSE, table |-> studs \cup {[id |-> id, name |-> value.name, class_id |-> value.class_id]}]
    ELSE [error |-> TRUE, table |-> studs]

UpdateStudent(studs, cls, id, value) ==
    IF value.class_id \notin Ids(cls) /\ id \in Ids(studs)
    THEN [error |-> TRUE, table |-> studs]
    ELSE [error |-> FALSE,
          table |-> { IF s.id = id THEN [s EXCEPT !.name = value.name, !.class_id = value.class_id] ELSE s
                      : s \in studs }]

\* a foreign key without ON DELETE CASCADE that is not enforced either
NoCascade(att, studs) == att

\* attendance.student_id REFERENCES students(id) ON DELETE CASCADE
CascadeAttendance(att, studs) == { a \in att : a.student_id \in Ids(studs) }

\* students.class_id REFERENCES classes(id) ON DELETE CASCADE
CascadeStudents(studs, cls) == { s \in studs : s.class_id \in Ids(cls) }

KeyOf(a) == <<a.student_id, a.date>>

RECURSIVE UpsertRows(_, _, _, _, _, _)
\* INSERT ... ON CONFLICT (student_id, date) DO UPDATE, one statement:
\* a foreign key violation or a key proposed twice aborts the whole statement
UpsertRows(att, records, i, next, touched, studs) ==
    IF i > Len(records)
    THEN [error |-> FALSE, table |-> att, next |-> next, keys |-> touched]
    ELSE LET row == records[i]
             hit == { a \in att : KeyOf(a) = KeyOf(row) }
         IN  IF row.student_id \notin Ids(studs) \/ KeyOf(row) \in touched
             THEN [error |-> TRUE, table |-> att, next |-> next, keys |-> touched]
             ELSE IF hit # {}
             THEN UpsertRows({ IF a \in hit THEN [a EXCEPT !.status = row.status] ELSE a : a \in att },
                             records, i + 1, next, touched \cup {KeyOf(row)}, studs)
             ELSE UpsertRows(att \cup {[id |-> next, student_id |-> row.student_id,
                                        date |-> row.date, status |-> row.status]},
                             records, i + 1, next + 1, touched \cup {KeyOf(row)}, studs)

\* a plain INSERT of every row: what the write would be without UNIQUE(student_id, date)
InsertRows(att, records, next, studs) ==
    IF \E i \in 1..Len(records) : records[i].student_id \notin Ids(studs)
    THEN [error |-> TRUE, table |-> att, next |-> next, keys |-> {}]
    ELSE [error |-> FALSE,
          table |-> att \cup { [id |-> next + i - 1, student_id |-> records[i].student_id,
                                date |-> records[i].date, status |-> records[i].status]
                               : i \in 1..Len(records) },
          next |-> next + Len(records),
          keys |-> { KeyOf(records[i]) : i \in 1..Len(records) }]

\* a plain INSERT under UNIQUE(student_id, date): a conflict is an error
InsertOrFail(att, records, next, studs) ==
    IF \E i \in 1..Len(records) : \E a \in att : KeyOf(a) = KeyOf(records[i])
    THEN [error |-> TRUE, table |-> att, next |-> next, keys |-> {}]
    ELSE InsertRows(att, records, next, studs)

\* ignoreDuplicates: true, ON CONFLICT DO NOTHING: the stored row wins
UpsertIgnoringDuplicates(att, records, next, studs) ==
    LET fresh == SelectSeq(records, LAMBDA row : \A a \in att : KeyOf(a) # KeyOf(row))
        res == UpsertRows(att, fresh, 1, next, {}, studs)
    IN  IF (\E i \in 1..Len(records) : records[i].student_id \notin Ids(studs)) \/ res.error
        THEN [error |-> TRUE, table |-> att, next |-> next, keys |-> {}]
        ELSE res

\* one statement per row: the rows before a failing row stay written
UpsertRowByRow(att, records, next, studs) == UpsertRows(att, records, 1, next, {}, studs)

\* a write that replaces whatever the student had: the rows of the batch's students
\* are deleted, then the batch is inserted
ReplaceStudentRows(att, records, next, studs) ==
    InsertRows({ a \in att : \A i \in 1..Len(records) : a.student_id # records[i].student_id },
               records, next, studs)

\* an upsert that writes the first record of the batch only
UpsertFirst(att, records, next, studs) ==
    LET res == UpsertRows(att, SubSeq(records, 1, 1), 1, next, {}, studs)
    IN  IF res.error THEN [error |-> TRUE, table |-> att, next |-> next, keys |-> {}] ELSE res

\* an upsert that writes the last record of the batch only
UpsertLast(att, records, next, studs) ==
    LET res == UpsertRows(att, SubSeq(records, Len(records), Len(records)), 1, next, {}, studs)
    IN  IF res.error THEN [error |-> TRUE, table |-> att, next |-> next, keys |-> {}] ELSE res

\* an upsert whose conflict target is the student alone: the status is written to
\* every record of the student
UpsertStudentWide(att, records, next, studs) ==
    LET res == UpsertRows(att, records, 1, next, {}, studs)
        Last(id) == CHOOSE i \in 1..Len(records) :
                        records[i].student_id = id /\ \A j \in (i + 1)..Len(records) : records[j].student_id # id
    IN  IF res.error THEN [error |-> TRUE, table |-> att, next |-> next, keys |-> {}]
        ELSE [res EXCEPT !.table = { IF \E i \in 1..Len(records) : records[i].student_id = a.student_id
                                     THEN [a EXCEPT !.status = records[Last(a.student_id)].status]
                                     ELSE a : a \in res.table }]

\* .upsert(records, { onConflict: 'student_id,date', ignoreDuplicates: false })
Upsert(att, records, next, studs) ==
    LET res == UpsertRows(att, records, 1, next, {}, studs)
    IN  IF res.error THEN [error |-> TRUE, table |-> att, next |-> next, keys |-> {}] ELSE res

\* .select('*, students (id, name, classes (...))') after an upsert: the rows the
\* statement wrote, one for each record of the batch, each with its student
Returned(att, records, studs) ==
    LET written == { i \in 1..Len(records) : \E a \in att : KeyOf(a) = KeyOf(records[i]) }
        RowOf(i) == CHOOSE a \in att : KeyOf(a) = KeyOf(records[i])
        StudentOf(i) == CHOOSE s \in studs : s.id = records[i].student_id
    IN  [i \in written |->
            [id |-> RowOf(i).id, student_id |-> RowOf(i).student_id, date |-> RowOf(i).date,
             status |-> RowOf(i).status,
             students |-> [id |-> StudentOf(i).id, name |-> StudentOf(i).name]]]

\* DELETE FROM students WHERE id = ..., with the cascade to attendance
DeleteStudentRow(studs, id) == { s \in studs : s.id # id }

\* DELETE FROM classes WHERE id = ..., with the cascade to students
DeleteClassRow(cls, id) == { c \in cls : c.id # id }

(***************************************************************************)
(* Requests. A request is issued together with its first store call and   *)
(* ends in pc = "done" with its response code; "awaiting" is the position   *)
(* after the first await, before the second store call.                    *)
(***************************************************************************)
Requests == 1..MaxRequests

NoRequest == [op |-> "none", pc |-> "new", code |-> 0, arg |-> Null, data |-> <<>>, body |-> Null]

\* messages of the errors a failing store call may come back with
ErrorDetails == {"connection refused", "permission denied for table attendance"}

Environments == {"development", "production", "test"}

\* a production process whose store, when it fails, fails with one message
EnvInit == fault = [r \in Requests |-> "connection refused"] /\ nodeEnv = "production"

\* the message of each route's catch block
CatchMessages ==
    [op \in {"GET /attendance", "GET /attendance/charts", "POST /attendance", "POST /attendance/bulk",
             "GET /attendance/class/date", "GET /classes", "POST /classes", "PUT /classes", "DELETE /classes",
             "GET /export/attendance", "GET /export/students", "GET /students", "POST /students",
             "PUT /students", "DELETE /students"} |->
        IF op = "GET /attendance" THEN "Failed to fetch attendance records"
        ELSE IF op = "GET /attendance/charts" THEN "Failed to fetch chart data"
        ELSE IF op = "POST /attendance" THEN "Failed to record attendance"
        ELSE IF op = "POST /attendance/bulk" THEN "Failed to record bulk attendance"
        ELSE IF op = "GET /attendance/class/date" THEN "Failed to fetch class attendance"
        ELSE IF op = "GET /classes" THEN "Failed to fetch class"
        ELSE IF op = "POST /classes" THEN "Failed to create class"
        ELSE IF op = "PUT /classes" THEN "Failed to update class"
        ELSE IF op = "DELETE /classes" THEN "Failed to delete class"
        ELSE IF op = "GET /export/attendance" THEN "Failed to export attendance data"
        ELSE IF op = "GET /export/students" THEN "Failed to export students data"
        ELSE IF op = "GET /students" THEN "Failed to fetch student"
        ELSE IF op = "POST /students" THEN "Failed to create student"
        ELSE IF op = "PUT /students" THEN "Failed to update student"
        ELSE "Failed to delete student"]

\* a catch block that answers with the message of what it caught
FailureBodyWithDetail(op, error) == [success |-> FALSE, error |-> error.message]

\* catch (error) { console.error(..., error); res.status(500).json({ success: false,
\* error: '...' }) } of a route; a helper of the front end throws the error on
FailureBody(op, error) ==
    IF op \in DOMAIN CatchMessages
    THEN [success |-> FALSE, error |-> CatchMessages[op]]
    ELSE [thrown |-> error.message]

Issuable(r) == reqs[r].pc = "new" /\ \A q \in 1..(r - 1) : reqs[q].pc # "new"

At(r, op, pc) == reqs[r].pc = pc /\ reqs[r].op = op

\* ids a client can name: every id handed out so far, and 0, an id of no row
RefStudentIds == 0..(nextStudentId - 1)
RefClassIds == 0..(nextClassId - 1)

Await(r, op, arg) ==
    reqs' = [reqs EXCEPT ![r] = [op |-> op, pc |-> "awaiting", code |-> 0, arg |-> arg, data |-> <<>>,
                                 body |-> Null]]

\* a handler whose catch block is missing: the error ends it with no response
RespondUnlessThrown(r, op, arg, code, data) ==
    reqs' = [reqs EXCEPT ![r] = [op |-> op, pc |-> IF code = 500 THEN "thrown" ELSE "done",
                                 code |-> IF code = 500 THEN 0 ELSE code, arg |-> arg, data |-> data,
                                 body |-> Null]]

Respond(r, op, arg, code, data) ==
    reqs' = [reqs EXCEPT ![r] = [op |-> op, pc |-> "done", code |-> code, arg |-> arg, data |-> data,
                                 body |-> IF code = 500
                                          THEN FailureBody(op, [message |-> fault[r]])
                                          ELSE Null]]

Finish(r, code, data) == Respond(r, reqs[r].op, reqs[r].arg, code, data)

\* whether a store call is served (TRUE) or fails: network error, store down
StoreOutcomes == IF store = "failing" THEN {TRUE, FALSE} ELSE {TRUE}

\* request r has made a store call with that outcome
Call(r, served) == failed' = IF served THEN failed ELSE failed \cup {r}

\* a created_at that every statement sets anew on the rows of the table
CreatedAtRefreshed(att) == [id \in Ids(att) |-> nextAttendanceId]

\* created_at of the rows of a table after a statement: a row that was there keeps
\* its own, the rows the statement inserted share the statement's now()
CreatedAtOf(att) ==
    [id \in Ids(att) |-> IF id \in DOMAIN createdAt THEN createdAt[id] ELSE nextAttendanceId]

\* the result of a failed call: no data, an error, and no effect on the tables
Failure == [data |-> Null, error |-> TRUE]

TablesInit ==
    /\ classes = { [id |-> 1, class_name |-> "3A", grade |-> 3],
                   [id |-> 2, class_name |-> "4A", grade |-> 4] }
    /\ students = { [id |-> 1, name |-> <<19, 15>>, class_id |-> 1],
                    [id |-> 2, name |-> <<14, 15>>, class_id |-> 1] }
    /\ attendance = {}
    /\ createdAt = [id \in {} |-> 0]
    /\ nextClassId = 3
    /\ nextStudentId = 3
    /\ nextAttendanceId = 1
    /\ reqs = [r \in Requests |-> NoRequest]
    /\ failed = {}
    /\ received = [r \in Requests |-> Null]

\* the store serves every call and clients send valid bodies
StoreInit == TablesInit /\ store = "reliable" /\ bodies = "valid" /\ EnvInit

PureIdle == rows = <<>> /\ chartData = Null /\ today = <<>> /\ stats = Null

(***************************************************************************)
(* Request validation: the Joi schemas and schema.validate(req.body).       *)
(* A JSON value is a record tagged with what it is: [string |-> "3A"] and   *)
(* [chars |-> <<19, 15>>] are texts, [uuid |-> 1] is the text of the        *)
(* well-formed uuid of row 1, [day |-> 1, shift |-> 0] is a date text that  *)
(* names day 1 and whose instant falls shift days later in UTC,             *)
(* [halves |-> 5] is the number 2.5, [items |-> <<...>>] is an array.       *)
(***************************************************************************)
\* a key the body does not carry
Undefined == [undefined |-> TRUE]

\* the day on which the request is handled
Now == 2

IsText(v) == DOMAIN v \cap {"string", "chars", "uuid", "day"} # {}

TextLength(v) ==
    IF "string" \in DOMAIN v THEN Len(v.string)
    ELSE IF "chars" \in DOMAIN v THEN Len(v.chars)
    ELSE IF "uuid" \in DOMAIN v THEN 36
    ELSE 10

TextOf(v) == IF "string" \in DOMAIN v THEN v.string ELSE v.chars

\* the numeric texts a client sends, with twice the number each denotes
Numerals == [t \in {"7"} |-> 14]

\* Joi.number() with convert: a number, or a text that denotes one; in halves
ParsedNumber(v) ==
    IF "halves" \in DOMAIN v THEN {v.halves}
    ELSE IF "string" \in DOMAIN v /\ v.string \in DOMAIN Numerals THEN {Numerals[v.string]}
    ELSE {}

classSchema ==
    << [key |-> "class_name", type |-> "string", min |-> 1, max |-> 50],
       [key |-> "grade", type |-> "number", min |-> 1, max |-> 12] >>

studentSchema ==
    << [key |-> "name", type |-> "string", min |-> 2, max |-> 100],
       [key |-> "class_id", type |-> "uuid"],
       [key |-> "gender", type |-> "valid", values |-> {"Male", "Female"}],
       [key |-> "date_of_birth", type |-> "date", max |-> "now"] >>

attendanceSchema ==
    << [key |-> "student_id", type |-> "uuid"],
       [key |-> "date", type |-> "date", max |-> "none"],
       [key |-> "status", type |-> "valid", values |-> {"Present", "Absent", "Late", "Excused"}] >>

\* the items of bulkAttendanceSchema.records
recordSchema ==
    << [key |-> "student_id", type |-> "uuid"],
       [key |-> "status", type |-> "valid", values |-> {"Present", "Absent", "Late", "Excused"}] >>

bulkAttendanceSchema ==
    << [key |-> "date", type |-> "date", max |-> "none"],
       [key |-> "records", type |-> "array", items |-> recordSchema, min |-> 1] >>

Accept(value) == [error |-> "none", at |-> Null, value |-> value]
Reject(type) == [error |-> type, at |-> Null, value |-> Null]

\* ValidateScalar without the upper limits
ValidateScalarUnlimited(rule, v) ==
    IF v = Undefined THEN Reject("any.required")
    ELSE IF rule.type = "valid"
    THEN IF v \in { [string |-> x] : x \in rule.values } THEN Accept(v.string) ELSE Reject("any.only")
    ELSE IF rule.type \in {"string", "uuid"}
    THEN IF ~IsText(v) THEN Reject("string.base")
         ELSE IF TextLength(v) = 0 THEN Reject("string.empty")
         ELSE IF rule.type = "uuid" /\ "uuid" \notin DOMAIN v THEN Reject("string.guid")
         ELSE IF rule.type = "string" /\ TextLength(v) < rule.min THEN Reject("string.min")
         ELSE Accept(IF rule.type = "uuid" THEN v.uuid ELSE TextOf(v))
    ELSE IF rule.type = "number"
    THEN IF ParsedNumber(v) = {} THEN Reject("number.base")
         ELSE LET halves == CHOOSE h \in ParsedNumber(v) : TRUE
              IN  IF halves % 2 # 0 THEN Reject("number.integer")
                  ELSE IF halves \div 2 < rule.min THEN Reject("number.min")
                  ELSE Accept(halves \div 2)
    ELSE IF "day" \notin DOMAIN v THEN Reject("date.base")
         ELSE Accept(v.day + v.shift)

\* one key against its rules, in the order Joi runs them: presence, the valid
\* values, the base type (with conversion), then the rules as they were chained
ValidateScalar(rule, v) ==
    IF v = Undefined THEN Reject("any.required")
    ELSE IF rule.type = "valid"
    THEN IF v \in { [string |-> x] : x \in rule.values } THEN Accept(v.string) ELSE Reject("any.only")
    ELSE IF rule.type = "string"
    THEN IF ~IsText(v) THEN Reject("string.base")
         ELSE IF TextLength(v) = 0 THEN Reject("string.empty")
         ELSE IF TextLength(v) < rule.min THEN Reject("string.min")
         ELSE IF TextLength(v) > rule.max THEN Reject("string.max")
         ELSE Accept(TextOf(v))
    ELSE IF rule.type = "uuid"
    THEN IF ~IsText(v) THEN Reject("string.base")
         ELSE IF TextLength(v) = 0 THEN Reject("string.empty")
         ELSE IF "uuid" \notin DOMAIN v THEN Reject("string.guid")
         ELSE Accept(v.uuid)
    ELSE IF rule.type = "number"
    THEN IF ParsedNumber(v) = {} THEN Reject("number.base")
         ELSE LET halves == CHOOSE h \in ParsedNumber(v) : TRUE
              IN  IF halves % 2 # 0 THEN Reject("number.integer")
                  ELSE IF halves \div 2 < rule.min THEN Reject("number.min")
                  ELSE IF halves \div 2 > rule.max THEN Reject("number.max")
                  ELSE Accept(halves \div 2)
    ELSE \* "date": the text is parsed to an instant; the value is its UTC day
         IF "day" \notin DOMAIN v THEN Reject("date.base")
         ELSE IF rule.max = "now" /\ v.day + v.shift > Now THEN Reject("date.max")
         ELSE Accept(v.day + v.shift)

Keys(schema) == { schema[k].key : k \in 1..Len(schema) }

FieldOf(body, key) == IF key \in DOMAIN body THEN body[key] ELSE Undefined

\* Joi.object(schema).validate(body) with abortEarly, given the result of each
\* key's rules: the keys in the order of the schema, then the keys the schema
\* does not know; the first error ends it
ValidateKeys(schema, body, results) ==
    LET result(k) == results[k]
        failing == { k \in 1..Len(schema) : result(k).error # "none" }
        first == CHOOSE k \in failing : \A j \in failing : k <= j
        unknown == DOMAIN body \ Keys(schema)
    IN  IF failing # {}
        THEN [error |-> [key |-> schema[first].key, type |-> result(first).error, at |-> result(first).at],
              value |-> Null]
        ELSE IF unknown # {}
        THEN [error |-> [key |-> CHOOSE key \in unknown : TRUE, type |-> "object.unknown", at |-> Null],
              value |-> Null]
        ELSE [error |-> Null,
              value |-> [key \in Keys(schema) |->
                            LET k == CHOOSE j \in 1..Len(schema) : schema[j].key = key
                            IN  result(k).value]]

\* Joi.array().items(Joi.object(...)).min(n): the items in order, then the length
ValidateArray(rule, v) ==
    IF v = Undefined THEN Reject("any.required")
    ELSE IF "items" \notin DOMAIN v THEN Reject("array.base")
    ELSE LET result(i) ==
                 ValidateKeys(rule.items, v.items[i],
                              [k \in 1..Len(rule.items) |->
                                  ValidateScalar(rule.items[k], FieldOf(v.items[i], rule.items[k].key))])
             failing == { i \in 1..Len(v.items) : result(i).error # Null }
             first == CHOOSE i \in failing : \A j \in failing : i <= j
         IN  IF failing # {}
             THEN [error |-> result(first).error.type,
                   at |-> [index |-> first - 1, key |-> result(first).error.key],
                   value |-> Null]
             ELSE IF Len(v.items) < rule.min THEN Reject("array.min")
             ELSE Accept([i \in 1..Len(v.items) |-> result(i).value])

ValidateRule(rule, v) ==
    IF rule.type = "array" THEN ValidateArray(rule, v) ELSE ValidateScalar(rule, v)

\* schema.validate(req.body): { error, value }
Validate(schema, body) ==
    ValidateKeys(schema, body,
                 [k \in 1..Len(schema) |-> ValidateRule(schema[k], FieldOf(body, schema[k].key))])

\* a body with one more key than the schema knows
WithUnknownKey(B) ==
    { [key \in DOMAIN body \cup {"note"} |-> IF key = "note" THEN [string |-> "x"] ELSE body[key]] : body \in B }

RECURSIVE Pad(_)
\* a text of n characters
Pad(n) == IF n = 0 THEN "" ELSE "a" \o Pad(n - 1)

\* what a client may put under a key of each kind
NumberFields ==
    { Undefined, [string |-> "x"], [string |-> "7"], [halves |-> 0], [halves |-> 1], [halves |-> 2],
      [halves |-> 5], [halves |-> 24], [halves |-> 26] }
UuidFields(ids) == { Undefined, [halves |-> 6], [string |-> ""], [string |-> "x"] } \cup { [uuid |-> id] : id \in ids }
DateFields == { Undefined, [string |-> "x"], [day |-> 1, shift |-> 0], [day |-> Now, shift |-> 0], [day |-> Now, shift |-> 1] }

(***************************************************************************)
(* Attendance routes.                                                      *)
(***************************************************************************)
AttendanceValues ==
    { [student_id |-> s, date |-> d, status |-> t] : s \in RefStudentIds, d \in Dates, t \in WriteStatuses }

ValidAttendanceBodies ==
    { [student_id |-> [uuid |-> v.student_id], date |-> [day |-> v.date, shift |-> 0],
       status |-> [string |-> v.status]] : v \in AttendanceValues }

AnyAttendanceBodies ==
    LET B == [student_id : UuidFields(RefStudentIds),
              date : DateFields,
              status : { Undefined, [halves |-> 6], [string |-> "Sick"] }
                          \cup { [string |-> t] : t \in WriteStatuses }]
    IN  B \cup WithUnknownKey(B)

\* the bodies of POST /api/attendance
AttendanceBodies == IF bodies = "any" THEN AnyAttendanceBodies ELSE ValidAttendanceBodies

\* POST /api/attendance: the validation, then up to the await of the student lookup
PostAttendance(r) ==
    /\ Issuable(r)
    /\ \E body \in AttendanceBodies, served \in StoreOutcomes :
          \E validation \in { Validate(attendanceSchema, body) } :
          LET value == validation.value
              student == (IF served THEN Single({ s \in students : s.id = value.student_id }) ELSE Failure).data
          IN  /\ received' = [received EXCEPT ![r] = body]
              /\ IF validation.error # Null
                 THEN Respond(r, "POST /attendance", Null, 400, <<validation.error>>) /\ Call(r, TRUE)
                 ELSE /\ IF student = Null
                         THEN Respond(r, "POST /attendance", value, 400, <<>>)
                         ELSE Await(r, "POST /attendance", value)
                      /\ Call(r, served)
    /\ UNCHANGED <<storeVars, pureVars, envVars>>

\* the upsert of one record, and the response
UpsertOne(r) ==
    \E served \in StoreOutcomes :
        LET res == IF served
                   THEN Upsert(attendance, <<reqs[r].arg>>, nextAttendanceId, students)
                   ELSE [error |-> TRUE, table |-> attendance, next |-> nextAttendanceId, keys |-> {}]
        IN  /\ attendance' = res.table
            /\ createdAt' = CreatedAtOf(attendance')
            /\ nextAttendanceId' = res.next
            /\ IF res.error THEN Finish(r, 500, <<>>)
               ELSE Finish(r, 201, Returned(res.table, <<reqs[r].arg>>, students))
            /\ Call(r, served)
            /\ UNCHANGED <<classes, students, nextClassId, nextStudentId, pureVars, envVars, received>>

PostAttendanceUpsert(r) ==
    /\ At(r, "POST /attendance", "awaiting")
    /\ UpsertOne(r)

\* db.recordAttendance: the upsert alone; a store error is thrown to the caller
DbRecordAttendance(r) ==
    /\ Issuable(r)
    /\ \E value \in AttendanceValues, served \in StoreOutcomes :
          LET res == IF served
                     THEN Upsert(attendance, <<value>>, nextAttendanceId, students)
                     ELSE [error |-> TRUE, table |-> attendance, next |-> nextAttendanceId, keys |-> {}]
          IN  /\ attendance' = res.table
              /\ createdAt' = CreatedAtOf(attendance')
              /\ nextAttendanceId' = res.next
              /\ IF res.error
                 THEN Respond(r, "db.recordAttendance", value, 500, <<>>)
                 ELSE Respond(r, "db.recordAttendance", value, 201,
                              Returned(res.table, <<value>>, students))
              /\ Call(r, served)
    /\ UNCHANGED <<classes, students, nextClassId, nextStudentId, pureVars, envVars, received>>

BulkBodies ==
    { [date |-> d, records |-> recs] :
         d \in Dates,
         recs \in UNION { [1..n -> [student_id : RefStudentIds, status : WriteStatuses]] : n \in BatchLengths } }

ValidBulkRequestBodies ==
    { [date |-> [day |-> v.date, shift |-> 0],
       records |-> [items |-> [i \in 1..Len(v.records) |->
                                  [student_id |-> [uuid |-> v.records[i].student_id],
                                   status |-> [string |-> v.records[i].status]]]]] : v \in BulkBodies }

\* valid bodies of one record on the first date, for each student a client can name
FewBulkRequestBodies ==
    { b \in ValidBulkRequestBodies :
        b.date.day = 1 /\ Len(b.records.items) = 1 /\ b.records.items[1].status.string = "Present" }

AnyBulkRequestBodies ==
    LET Items == [student_id : { Undefined, [string |-> "x"], [uuid |-> 0], [uuid |-> 1] },
                  status : { Undefined, [string |-> "Present"], [string |-> "Sick"] }]
        B == [date : DateFields,
              records : { Undefined, [string |-> "x"], [items |-> <<>>] }
                           \cup { [items |-> seq] : seq \in UNION { [1..n -> Items] : n \in BatchLengths } }]
    IN  B \cup WithUnknownKey(B)

\* the bodies of POST /api/attendance/bulk
BulkRequestBodies ==
    IF bodies = "any" THEN AnyBulkRequestBodies
    ELSE IF bodies = "few" THEN FewBulkRequestBodies
    ELSE ValidBulkRequestBodies

\* value.records.map(record => ({ ...record, date: value.date }))
StampDate(body) ==
    [i \in 1..Len(body.records) |->
        [student_id |-> body.records[i].student_id, date |-> body.date, status |-> body.records[i].status]]

\* POST /api/attendance/bulk: the validation, the stamp, then up to the await of
\* the batch lookup
PostBulk(r) ==
    /\ Issuable(r)
    /\ \E body \in BulkRequestBodies, served \in StoreOutcomes :
          \E validation \in { Validate(bulkAttendanceSchema, body) } :
          LET attendanceRecords == StampDate(validation.value)
              studentIds == [i \in 1..Len(attendanceRecords) |-> attendanceRecords[i].student_id]
              found == { s \in students : \E i \in 1..Len(studentIds) : s.id = studentIds[i] }
          IN  /\ received' = [received EXCEPT ![r] = body]
              /\ IF validation.error # Null
                 THEN Respond(r, "POST /attendance/bulk", Null, 400, <<validation.error>>) /\ Call(r, TRUE)
                 ELSE /\ IF ~served
                         THEN \* data is null and students.length throws
                              Respond(r, "POST /attendance/bulk", attendanceRecords, 500, <<>>)
                         ELSE IF Cardinality(found) # Len(studentIds)
                         THEN Respond(r, "POST /attendance/bulk", attendanceRecords, 400, <<>>)
                         ELSE Await(r, "POST /attendance/bulk", attendanceRecords)
                      /\ Call(r, served)
    /\ UNCHANGED <<storeVars, pureVars, envVars>>

\* the upsert of the batch, and the response
PostBulkUpsert(r) ==
    /\ At(r, "POST /attendance/bulk", "awaiting")
    /\ \E served \in StoreOutcomes :
          LET res == IF served
                     THEN Upsert(attendance, reqs[r].arg, nextAttendanceId, students)
                     ELSE [error |-> TRUE, table |-> attendance, next |-> nextAttendanceId, keys |-> {}]
          IN  /\ attendance' = res.table
              /\ createdAt' = CreatedAtOf(attendance')
              /\ nextAttendanceId' = res.next
              /\ IF res.error THEN Finish(r, 500, <<>>)
                 ELSE Finish(r, 201, Returned(res.table, reqs[r].arg, students))
              /\ Call(r, served)
    /\ UNCHANGED <<classes, students, nextClassId, nextStudentId, pureVars, envVars, received>>

\* db.bulkRecordAttendance: stamp the date and upsert, no lookup
DbBulkRecordAttendance(r) ==
    /\ Issuable(r)
    /\ \E body \in BulkBodies, served \in StoreOutcomes :
          LET attendanceRecords == StampDate(body)
              res == IF served
                     THEN Upsert(attendance, attendanceRecords, nextAttendanceId, students)
                     ELSE [error |-> TRUE, table |-> attendance, next |-> nextAttendanceId, keys |-> {}]
          IN  /\ attendance' = res.table
              /\ createdAt' = CreatedAtOf(attendance')
              /\ nextAttendanceId' = res.next
              /\ IF res.error
                 THEN Respond(r, "db.bulkRecordAttendance", attendanceRecords, 500, <<>>)
                 ELSE Respond(r, "db.bulkRecordAttendance", attendanceRecords, 201,
                              Returned(res.table, attendanceRecords, students))
              /\ Call(r, served)
    /\ UNCHANGED <<classes, students, nextClassId, nextStudentId, pureVars, envVars, received>>

(***************************************************************************)
(* The attendance list (GET /api/attendance).                              *)
(* The values of req.query are texts: [uuid |-> 1] the uuid of row 1,       *)
(* [day |-> 1] a date, [text |-> <<1, 0>>] the digits "10"; a default of the *)
(* destructuring is a number, [number |-> 100].                             *)
(***************************************************************************)
RECURSIVE DigitsOf(_)
\* the decimal digits of a natural number
DigitsOf(n) == IF n < 10 THEN <<n>> ELSE Append(DigitsOf(n \div 10), n % 10)

RECURSIVE NumberOf(_)
\* the number a sequence of digits denotes
NumberOf(digits) ==
    IF digits = <<>> THEN 0
    ELSE 10 * NumberOf(SubSeq(digits, 1, Len(digits) - 1)) + digits[Len(digits)]

\* ToString and ToNumber of a JavaScript value
AsText(v) == IF "text" \in DOMAIN v THEN v.text ELSE DigitsOf(v.number)
AsNumber(v) == IF "text" \in DOMAIN v THEN NumberOf(v.text) ELSE v.number

\* a + b: the sum of two numbers, otherwise the concatenation of the two texts
Plus(a, b) ==
    IF "number" \in DOMAIN a /\ "number" \in DOMAIN b
    THEN [number |-> a.number + b.number]
    ELSE [text |-> AsText(a) \o AsText(b)]

\* a - b: always of numbers
Minus(a, b) == [number |-> AsNumber(a) - AsNumber(b)]

parseInt(v) == AsNumber(v)

\* the query strings of the list: each parameter absent or supplied
ListQueries ==
    [student_id : {Undefined} \cup { [uuid |-> id] : id \in RefStudentIds },
     class_id : {Undefined} \cup { [uuid |-> id] : id \in RefClassIds },
     date : {Undefined, [day |-> 1]},
     start_date : {Undefined, [day |-> 2]},
     end_date : {Undefined, [day |-> 1]},
     status : {Undefined, [string |-> "Present"]},
     limit : {Undefined, [text |-> <<1>>], [text |-> <<2>>]},
     offset : {Undefined, [text |-> <<0>>], [text |-> <<1>>]}]

\* .order('date', { ascending: false }).order('created_at', { ascending: false })
Ordered(seq) ==
    \A i, j \in 1..Len(seq) :
        i < j => \/ seq[i].date > seq[j].date
                 \/ seq[i].date = seq[j].date /\ createdAt[seq[i].id] >= createdAt[seq[j].id]

\* the orders in which the store may return the rows: ties in any order
Orderings(matching) ==
    { seq \in [1..Cardinality(matching) -> matching] :
        /\ \A i, j \in 1..Cardinality(matching) : i # j => seq[i] # seq[j]
        /\ Ordered(seq) }

\* .range(from, to): offset = from, limit = to - from + 1
Range(seq, from, to) ==
    LET last == IF to + 1 < Len(seq) THEN to + 1 ELSE Len(seq)
    IN  SubSeq(seq, from + 1, last)

\* the rows the filters on the attendance columns keep
FilterRows(att, query) ==
    { a \in att :
        /\ query.student_id # Undefined => a.student_id = query.student_id.uuid
        /\ query.date # Undefined => a.date = query.date.day
        /\ query.start_date # Undefined => a.date >= query.start_date.day
        /\ query.end_date # Undefined => a.date <= query.end_date.day
        /\ query.status # Undefined => a.status = query.status.string }

\* a row with its embedded student: .eq('students.class_id', class_id) is a
\* filter on the embedded resource, which is null where it does not match
Embedded(a, class_id) ==
    LET student == CHOOSE x \in students : x.id = a.student_id
        class == CHOOSE c \in classes : c.id = student.class_id
    IN  [id |-> a.id, student_id |-> a.student_id, date |-> a.date, status |-> a.status,
         created_at |-> createdAt[a.id],
         students |-> IF class_id = Undefined \/ student.class_id = class_id.uuid
                      THEN [id |-> student.id, name |-> student.name,
                            classes |-> [id |-> class.id, class_name |-> class.class_name,
                                         grade |-> class.grade]]
                      ELSE Null]

\* GET /api/attendance
GetAttendance(r) ==
    /\ Issuable(r)
    /\ \E query \in ListQueries, served \in StoreOutcomes :
          LET limit == IF query.limit = Undefined THEN [number |-> 100] ELSE query.limit
              offset == IF query.offset = Undefined THEN [number |-> 0] ELSE query.offset
              to == Minus(Plus(offset, limit), [number |-> 1])
          IN  /\ \E ordered \in Orderings(FilterRows(attendance, query)) :
                    LET page == Range(ordered, AsNumber(offset), AsNumber(to))
                    IN  IF served
                        THEN Respond(r, "GET /attendance", query, 200,
                                     [data |-> [i \in 1..Len(page) |-> Embedded(page[i], query.class_id)],
                                      pagination |-> [limit |-> parseInt(limit), offset |-> parseInt(offset)]])
                        ELSE Respond(r, "GET /attendance", query, 500, <<>>)
              /\ Call(r, served)
    /\ UNCHANGED <<storeVars, pureVars, envVars, received>>

(***************************************************************************)
(* The exports (GET /api/export/attendance, GET /api/export/students).     *)
(* Dates are day numbers; a calendar month is DaysInMonth of them.          *)
(***************************************************************************)
DaysInMonth == 2

\* date-fns subMonths(date, amount)
subMonths(date, amount) == date - amount * DaysInMonth

\* the switch on period
StartDate(period, endDate) ==
    IF period = "1month" THEN subMonths(endDate, 1)
    ELSE IF period = "3months" THEN subMonths(endDate, 3)
    ELSE IF period \in {"6months", "semester"} THEN subMonths(endDate, 6)
    ELSE IF period = "1year" THEN subMonths(endDate, 12)
    ELSE subMonths(endDate, 1)

ExportQueries ==
    [period : {Undefined} \cup { [string |-> p] : p \in {"1month", "3months", "6months", "semester", "1year", "2years"} },
     class_id : {Undefined} \cup { [uuid |-> id] : id \in RefClassIds },
     student_id : {Undefined} \cup { [uuid |-> id] : id \in RefStudentIds },
     format_type : {Undefined, [string |-> "excel"], [string |-> "json"]}]

RECURSIVE ByDateDescending(_)
\* .order('date', { ascending: false }): the orders the store may return, ties
\* in any order
ByDateDescending(matching) ==
    IF matching = {} THEN { <<>> }
    ELSE UNION { { <<a>> \o rest : rest \in ByDateDescending(matching \ {a}) } :
                 a \in { x \in matching : \A y \in matching : x.date >= y.date } }

\* GET /api/export/attendance
ExportAttendance(r) ==
    /\ Issuable(r)
    /\ \E query \in ExportQueries, served \in StoreOutcomes :
          LET period == IF query.period = Undefined THEN "1month" ELSE query.period.string
              format_type == IF query.format_type = Undefined THEN "excel" ELSE query.format_type.string
              endDate == Now
              startDate == StartDate(period, endDate)
              matching == { a \in attendance :
                              /\ a.date >= startDate /\ a.date <= endDate
                              /\ query.student_id # Undefined => a.student_id = query.student_id.uuid }
          IN  /\ \E ordered \in ByDateDescending(matching) :
                    LET data == [i \in 1..Len(ordered) |-> Embedded(ordered[i], query.class_id)]
                    IN  IF ~served THEN Respond(r, "GET /export/attendance", query, 500, <<>>)
                        ELSE IF format_type = "json"
                        THEN Respond(r, "GET /export/attendance", query, 200,
                                     [format |-> "json", data |-> data, period |-> period,
                                      date_range |-> [start |-> startDate, end |-> endDate]])
                        ELSE IF \E i \in 1..Len(data) : data[i].students = Null
                        THEN \* record.students.name throws
                             Respond(r, "GET /export/attendance", query, 500, <<>>)
                        ELSE Respond(r, "GET /export/attendance", query, 200,
                                     [format |-> "xlsx", period |-> period,
                                      date_range |-> [start |-> startDate, end |-> endDate],
                                      data |-> [i \in 1..Len(data) |->
                                                   [name |-> data[i].students.name,
                                                    class_name |-> data[i].students.classes.class_name,
                                                    grade |-> data[i].students.classes.grade,
                                                    date |-> data[i].date,
                                                    status |-> data[i].status]]])
              /\ Call(r, served)
    /\ UNCHANGED <<storeVars, pureVars, envVars, received>>

\* the order of two names as texts
NameBefore(a, b) ==
    \/ Len(a) < Len(b) /\ SubSeq(b, 1, Len(a)) = a
    \/ \E i \in 1..Len(a) :
          i <= Len(b) /\ SubSeq(a, 1, i - 1) = SubSeq(b, 1, i - 1) /\ a[i] < b[i]

RECURSIVE ByName(_)
\* .order('name')
ByName(matching) ==
    IF matching = {} THEN { <<>> }
    ELSE UNION { { <<s>> \o rest : rest \in ByName(matching \ {s}) } :
                 s \in { x \in matching : \A y \in matching : ~NameBefore(y.name, x.name) } }

\* GET /api/export/students: of the query it reads class_id only, and it
\* answers with the workbook
ExportStudents(r) ==
    /\ Issuable(r)
    /\ \E query \in ExportQueries, served \in StoreOutcomes :
          LET matching == { s \in students : query.class_id # Undefined => s.class_id = query.class_id.uuid }
          IN  /\ \E data \in ByName(matching) :
                    IF ~served THEN Respond(r, "GET /export/students", query, 500, <<>>)
                    ELSE Respond(r, "GET /export/students", query, 200,
                                 [format |-> "xlsx",
                                  data |-> [i \in 1..Len(data) |->
                                               LET class == CHOOSE c \in classes : c.id = data[i].class_id
                                               IN  [name |-> data[i].name, class_name |-> class.class_name,
                                                    grade |-> class.grade]]])
              /\ Call(r, served)
    /\ UNCHANGED <<storeVars, pureVars, envVars, received>>

(***************************************************************************)
(* The error handling middleware of the server.                            *)
(***************************************************************************)
\* messages of the errors express.json() passes on for a body it cannot parse
ParserMessages == {"Unexpected token } in JSON at position 12", "Unexpected end of JSON input"}

\* app.use((err, req, res, next) => ...): a request whose body express.json()
\* rejects never reaches a route
ErrorMiddleware(r) ==
    /\ Issuable(r)
    /\ \E message \in ParserMessages :
          reqs' = [reqs EXCEPT ![r] =
                      [op |-> "error middleware", pc |-> "done", code |-> 500,
                       arg |-> [message |-> message], data |-> <<>>,
                       body |-> [error |-> "Something went wrong!",
                                 message |-> IF nodeEnv = "development"
                                             THEN message
                                             ELSE "Internal server error"]]]
    /\ UNCHANGED <<storeVars, pureVars, envVars, failed, received>>

\* app.use('*', ...): a request that matches no route
NotFoundHandler(r) ==
    /\ Issuable(r)
    /\ reqs' = [reqs EXCEPT ![r] =
                   [op |-> "404 handler", pc |-> "done", code |-> 404, arg |-> Null, data |-> <<>>,
                    body |-> [error |-> "Route not found"]]]
    /\ UNCHANGED <<storeVars, pureVars, envVars, failed, received>>

(***************************************************************************)
(* Deletions.                                                              *)
(***************************************************************************)
\* DELETE /api/students/:id: .delete().eq('id', id).select().single()
DeleteStudent(r) ==
    /\ Issuable(r)
    /\ \E id \in RefStudentIds, served \in StoreOutcomes :
          LET deleted == IF served THEN Single({ s \in students : s.id = id }) ELSE Failure
          IN  /\ students' = IF served THEN DeleteStudentRow(students, id) ELSE students
              /\ attendance' = CascadeAttendance(attendance, students')
              /\ createdAt' = CreatedAtOf(attendance')
              /\ IF deleted.error
                 THEN Respond(r, "DELETE /students", id, 500, <<>>)
                 ELSE IF deleted.data = Null
                 THEN Respond(r, "DELETE /students", id, 404, <<>>)
                 ELSE Respond(r, "DELETE /students", id, 200, <<>>)
              /\ Call(r, served)
    /\ UNCHANGED <<classes, nextClassId, nextStudentId, nextAttendanceId, pureVars, envVars, received>>

\* a handler that deletes the class whatever the lookup returned
HasStudentsIgnored(studs) == FALSE

\* students && students.length > 0
HasStudents(studs) == studs # {}

\* DELETE /api/classes/:id, up to the await of the students lookup (limit 1)
DeleteClass(r) ==
    /\ Issuable(r)
    /\ \E id \in RefClassIds, served \in StoreOutcomes :
          LET studs == IF served THEN { s \in students : s.class_id = id } ELSE {}   \* null on failure
          IN  /\ IF HasStudents(studs)
                 THEN Respond(r, "DELETE /classes", id, 400, <<>>)
                 ELSE Await(r, "DELETE /classes", id)
              /\ Call(r, served)
    /\ UNCHANGED <<storeVars, pureVars, envVars, received>>

\* .delete().eq('id', id).select().single(), with the store's cascades
DeleteClassDelete(r) ==
    /\ At(r, "DELETE /classes", "awaiting")
    /\ \E served \in StoreOutcomes :
          LET deleted == IF served THEN Single({ c \in classes : c.id = reqs[r].arg }) ELSE Failure
          IN  /\ classes' = IF served THEN DeleteClassRow(classes, reqs[r].arg) ELSE classes
              /\ students' = CascadeStudents(students, classes')
              /\ attendance' = CascadeAttendance(attendance, students')
              /\ createdAt' = CreatedAtOf(attendance')
              /\ IF deleted.error THEN Finish(r, 500, <<>>)
                 ELSE IF deleted.data = Null THEN Finish(r, 404, <<>>)
                 ELSE Finish(r, 200, <<>>)
              /\ Call(r, served)
    /\ UNCHANGED <<nextClassId, nextStudentId, nextAttendanceId, pureVars, envVars, received>>

(***************************************************************************)
(* Class routes.                                                           *)
(***************************************************************************)
SameNameGrade(c, value) == c.class_name = value.class_name /\ c.grade = value.grade

\* INSERT INTO classes: the table has no constraint besides its primary key
InsertClass(cls, id, value) ==
    cls \cup {[id |-> id, class_name |-> value.class_name, grade |-> value.grade]}

ValidClassBodies ==
    { [class_name |-> [string |-> p.class_name], grade |-> [halves |-> 2 * p.grade]] : p \in ClassPayloads }

AnyClassBodies ==
    LET B == [class_name : { Undefined, [halves |-> 6], [string |-> ""], [string |-> Pad(50)], [string |-> Pad(51)] }
                              \cup { [string |-> p.class_name] : p \in ClassPayloads },
              grade : NumberFields]
    IN  B \cup WithUnknownKey(B)

\* the bodies of POST /api/classes and PUT /api/classes/:id
ClassBodies == IF bodies = "any" THEN AnyClassBodies ELSE ValidClassBodies

\* POST /api/classes: the validation, then up to the await of the duplicate lookup
PostClass(r) ==
    /\ Issuable(r)
    /\ \E body \in ClassBodies, served \in StoreOutcomes :
          \E validation \in { Validate(classSchema, body) } :
          LET value == validation.value
              existingClass == (IF served THEN Single({ c \in classes : SameNameGrade(c, value) }) ELSE Failure).data
          IN  /\ received' = [received EXCEPT ![r] = body]
              /\ IF validation.error # Null
                 THEN Respond(r, "POST /classes", Null, 400, <<validation.error>>) /\ Call(r, TRUE)
                 ELSE /\ IF existingClass # Null
                         THEN Respond(r, "POST /classes", value, 400, <<>>)
                         ELSE Await(r, "POST /classes", value)
                      /\ Call(r, served)
    /\ UNCHANGED <<storeVars, pureVars, envVars>>

\* .insert([value]).select().single()
PostClassInsert(r) ==
    /\ At(r, "POST /classes", "awaiting")
    /\ \E served \in StoreOutcomes :
          /\ classes' = IF served THEN InsertClass(classes, nextClassId, reqs[r].arg) ELSE classes
          /\ nextClassId' = IF served THEN nextClassId + 1 ELSE nextClassId
          /\ IF served THEN Finish(r, 201, <<>>) ELSE Finish(r, 500, <<>>)
          /\ Call(r, served)
    /\ UNCHANGED <<students, attendance, createdAt, nextStudentId, nextAttendanceId, pureVars, envVars, received>>

\* db.createClass, called by the AddClass form: the insert alone
\* what the Add Class form holds at submit: the name as typed, a text with
\* spaces around it, and the grade select's value
ClassForms ==
    [class_name : { [string |-> ""], [string |-> "3A"], [string |-> "5B"], [string |-> Pad(50)],
                    [string |-> Pad(51)] },
     spaces : {0, 1},
     grade : { [text |-> <<>>], [text |-> <<3>>], [text |-> <<1, 2>>], [text |-> <<1, 3>>] }]

\* AddClass.handleSubmit: the form's checks, then db.createClass(classData)
AddClassSubmit(r) ==
    /\ Issuable(r)
    /\ \E formData \in ClassForms, served \in StoreOutcomes :
          IF \/ formData.class_name.string = ""      \* !formData.class_name.trim()
             \/ formData.grade.text = <<>>
             \/ AsNumber(formData.grade) < 1
             \/ AsNumber(formData.grade) > 12
          THEN /\ Respond(r, "AddClass", formData, 400, <<>>)
               /\ Call(r, TRUE)
               /\ UNCHANGED <<classes, nextClassId>>
          ELSE LET classData == [class_name |-> formData.class_name.string,
                                 grade |-> parseInt(formData.grade)]
               IN  /\ classes' = IF served THEN InsertClass(classes, nextClassId, classData) ELSE classes
                   /\ nextClassId' = IF served THEN nextClassId + 1 ELSE nextClassId
                   /\ IF served
                      THEN Respond(r, "AddClass", formData, 201, <<>>)
                      ELSE Respond(r, "AddClass", formData, 500, <<>>)
                   /\ Call(r, served)
    /\ UNCHANGED <<students, attendance, createdAt, nextStudentId, nextAttendanceId, pureVars, envVars, received>>

DbCreateClass(r) ==
    /\ Issuable(r)
    /\ \E value \in ClassPayloads, served \in StoreOutcomes :
          /\ classes' = IF served THEN InsertClass(classes, nextClassId, value) ELSE classes
          /\ nextClassId' = IF served THEN nextClassId + 1 ELSE nextClassId
          /\ IF served
             THEN Respond(r, "db.createClass", value, 201, <<>>)
             ELSE Respond(r, "db.createClass", value, 500, <<>>)
          /\ Call(r, served)
    /\ UNCHANGED <<students, attendance, createdAt, nextStudentId, nextAttendanceId, pureVars, envVars, received>>

\* PUT /api/classes/:id: the validation, then up to the await of the duplicate
\* lookup (.neq('id', id))
PutClass(r) ==
    /\ Issuable(r)
    /\ \E id \in RefClassIds, body \in ClassBodies, served \in StoreOutcomes :
          \E validation \in { Validate(classSchema, body) } :
          LET value == validation.value
              existingClass == (IF served
                                THEN Single({ c \in classes : SameNameGrade(c, value) /\ c.id # id })
                                ELSE Failure).data
          IN  /\ received' = [received EXCEPT ![r] = body]
              /\ IF validation.error # Null
                 THEN Respond(r, "PUT /classes", [id |-> id, value |-> Null], 400, <<validation.error>>)
                      /\ Call(r, TRUE)
                 ELSE /\ IF existingClass # Null
                         THEN Respond(r, "PUT /classes", [id |-> id, value |-> value], 400, <<>>)
                         ELSE Await(r, "PUT /classes", [id |-> id, value |-> value])
                      /\ Call(r, served)
    /\ UNCHANGED <<storeVars, pureVars, envVars>>

\* .update(value).eq('id', id).select().single()
PutClassUpdate(r) ==
    /\ At(r, "PUT /classes", "awaiting")
    /\ \E served \in StoreOutcomes :
          LET id == reqs[r].arg.id
              value == reqs[r].arg.value
              updated == IF served THEN Single({ c \in classes : c.id = id }) ELSE Failure
          IN  /\ classes' = IF served
                            THEN { IF c.id = id
                                   THEN [c EXCEPT !.class_name = value.class_name, !.grade = value.grade]
                                   ELSE c : c \in classes }
                            ELSE classes
              /\ IF updated.error THEN Finish(r, 500, <<>>)
                 ELSE IF updated.data = Null THEN Finish(r, 404, <<>>)
                 ELSE Finish(r, 200, <<>>)
              /\ Call(r, served)
    /\ UNCHANGED <<students, attendance, createdAt, nextClassId, nextStudentId, nextAttendanceId, pureVars, envVars, received>>

(***************************************************************************)
(* Student routes.                                                         *)
(***************************************************************************)
StudentValues == [name : StudentNames, class_id : RefClassIds, gender : {"Female"}, date_of_birth : {1}]

ValidStudentBodies ==
    { [name |-> [chars |-> v.name], class_id |-> [uuid |-> v.class_id],
       gender |-> [string |-> v.gender],
       date_of_birth |-> [day |-> v.date_of_birth, shift |-> 0]] : v \in StudentValues }

AnyStudentBodies ==
    LET B == [name : { Undefined, [halves |-> 6], [chars |-> <<>>], [chars |-> <<19>>],
                       [chars |-> [i \in 1..100 |-> 1]], [chars |-> [i \in 1..101 |-> 1]] }
                        \cup { [chars |-> n] : n \in StudentNames },
              class_id : UuidFields(RefClassIds),
              gender : { Undefined, [halves |-> 6], [string |-> "Male"], [string |-> "Female"],
                         [string |-> "Other"] },
              date_of_birth : DateFields]
    IN  B \cup WithUnknownKey(B)

\* the bodies of POST /api/students and PUT /api/students/:id
StudentBodies == IF bodies = "any" THEN AnyStudentBodies ELSE ValidStudentBodies

\* POST /api/students: the validation, then up to the await of the class lookup
PostStudent(r) ==
    /\ Issuable(r)
    /\ \E body \in StudentBodies, served \in StoreOutcomes :
          \E validation \in { Validate(studentSchema, body) } :
          LET value == validation.value
              classExists == (IF served THEN Single({ c \in classes : c.id = value.class_id }) ELSE Failure).data
          IN  /\ received' = [received EXCEPT ![r] = body]
              /\ IF validation.error # Null
                 THEN Respond(r, "POST /students", Null, 400, <<validation.error>>) /\ Call(r, TRUE)
                 ELSE /\ IF classExists = Null
                         THEN Respond(r, "POST /students", value, 400, <<>>)
                         ELSE Await(r, "POST /students", value)
                      /\ Call(r, served)
    /\ UNCHANGED <<storeVars, pureVars, envVars>>

\* .insert([value]).select(...).single()
PostStudentInsert(r) ==
    /\ At(r, "POST /students", "awaiting")
    /\ \E served \in StoreOutcomes :
          LET res == IF served
                     THEN InsertStudent(students, classes, nextStudentId, reqs[r].arg)
                     ELSE [error |-> TRUE, table |-> students]
          IN  /\ students' = res.table
              /\ nextStudentId' = IF res.error THEN nextStudentId ELSE nextStudentId + 1
              /\ IF res.error THEN Finish(r, 500, <<>>) ELSE Finish(r, 201, <<>>)
              /\ Call(r, served)
    /\ UNCHANGED <<classes, attendance, createdAt, nextClassId, nextAttendanceId, pureVars, envVars, received>>

\* db.createStudent, called by the AddStudent form: the insert alone
\* what the Add Student form holds at submit: the name as typed (0 is the space),
\* "" for a select or a date left empty
StudentForms ==
    [name : { <<>>, <<0>>, <<19>>, <<19, 0>>, [i \in 1..101 |-> 1] } \cup StudentNames,
     class_id : { [string |-> ""] } \cup { [uuid |-> id] : id \in RefClassIds \ {0} },
     gender : { [string |-> ""], [string |-> "Female"] },
     date_of_birth : { [string |-> ""], [day |-> 1], [day |-> Now + 1] }]

\* formData.name.trim() is empty
Blank(name) == \A i \in 1..Len(name) : name[i] = 0

\* AddStudent.handleSubmit: the form's checks, then db.createStudent(formData)
AddStudentSubmit(r) ==
    /\ Issuable(r)
    /\ \E formData \in StudentForms, served \in StoreOutcomes :
          IF \/ Blank(formData.name)
             \/ formData.class_id = [string |-> ""]
             \/ formData.gender = [string |-> ""]
             \/ formData.date_of_birth = [string |-> ""]
             \/ formData.date_of_birth.day > Now
          THEN /\ Respond(r, "AddStudent", formData, 400, <<>>)
               /\ Call(r, TRUE)
               /\ UNCHANGED <<students, nextStudentId>>
          ELSE LET value == [name |-> formData.name, class_id |-> formData.class_id.uuid,
                             gender |-> formData.gender.string,
                             date_of_birth |-> formData.date_of_birth.day]
                   res == IF served
                          THEN InsertStudent(students, classes, nextStudentId, value)
                          ELSE [error |-> TRUE, table |-> students]
               IN  /\ students' = res.table
                   /\ nextStudentId' = IF res.error THEN nextStudentId ELSE nextStudentId + 1
                   /\ IF res.error
                      THEN Respond(r, "AddStudent", formData, 500, <<>>)
                      ELSE Respond(r, "AddStudent", formData, 201, <<>>)
                   /\ Call(r, served)
    /\ UNCHANGED <<classes, attendance, createdAt, nextClassId, nextAttendanceId, pureVars, envVars, received>>

DbCreateStudent(r) ==
    /\ Issuable(r)
    /\ \E value \in StudentValues, served \in StoreOutcomes :
          LET res == IF served
                     THEN InsertStudent(students, classes, nextStudentId, value)
                     ELSE [error |-> TRUE, table |-> students]
          IN  /\ students' = res.table
              /\ nextStudentId' = IF res.error THEN nextStudentId ELSE nextStudentId + 1
              /\ IF res.error
                 THEN Respond(r, "db.createStudent", value, 500, <<>>)
                 ELSE Respond(r, "db.createStudent", value, 201, <<>>)
              /\ Call(r, served)
    /\ UNCHANGED <<classes, attendance, createdAt, nextClassId, nextAttendanceId, pureVars, envVars, received>>

\* PUT /api/students/:id: the validation, then up to the await of the class lookup
PutStudent(r) ==
    /\ Issuable(r)
    /\ \E id \in RefStudentIds, body \in StudentBodies, served \in StoreOutcomes :
          \E validation \in { Validate(studentSchema, body) } :
          LET value == validation.value
              classExists == (IF served THEN Single({ c \in classes : c.id = value.class_id }) ELSE Failure).data
          IN  /\ received' = [received EXCEPT ![r] = body]
              /\ IF validation.error # Null
                 THEN Respond(r, "PUT /students", [id |-> id, value |-> Null], 400, <<validation.error>>)
                      /\ Call(r, TRUE)
                 ELSE /\ IF classExists = Null
                         THEN Respond(r, "PUT /students", [id |-> id, value |-> value], 400, <<>>)
                         ELSE Await(r, "PUT /students", [id |-> id, value |-> value])
                      /\ Call(r, served)
    /\ UNCHANGED <<storeVars, pureVars, envVars>>

\* .update(value).eq('id', id).select(...).single()
PutStudentUpdate(r) ==
    /\ At(r, "PUT /students", "awaiting")
    /\ \E served \in StoreOutcomes :
          LET id == reqs[r].arg.id
              res == IF served
                     THEN UpdateStudent(students, classes, id, reqs[r].arg.value)
                     ELSE [error |-> TRUE, table |-> students]
              updated == IF served THEN Single({ s \in students : s.id = id }) ELSE Failure
          IN  /\ students' = res.table
              /\ IF res.error \/ updated.error THEN Finish(r, 500, <<>>)
                 ELSE IF updated.data = Null THEN Finish(r, 404, <<>>)
                 ELSE Finish(r, 200, <<>>)
              /\ Call(r, served)
    /\ UNCHANGED <<classes, attendance, createdAt, nextClassId, nextStudentId, nextAttendanceId, pureVars, envVars, received>>

(***************************************************************************)
(* Reads of one row by its id.                                             *)
(***************************************************************************)
\* GET /api/classes/:id: .select('*, students (...)').eq('id', id).single()
GetClass(r) ==
    /\ Issuable(r)
    /\ \E id \in RefClassIds, served \in StoreOutcomes :
          LET found == IF served THEN Single({ c \in classes : c.id = id }) ELSE Failure
          IN  /\ IF found.error
                 THEN Respond(r, "GET /classes", id, 500, <<>>)
                 ELSE IF found.data = Null
                 THEN Respond(r, "GET /classes", id, 404, <<>>)
                 ELSE Respond(r, "GET /classes", id, 200,
                              <<[id |-> found.data.id, class_name |-> found.data.class_name,
                                 grade |-> found.data.grade,
                                 students |-> { s.id : s \in { x \in students : x.class_id = id } }]>>)
              /\ Call(r, served)
    /\ UNCHANGED <<storeVars, pureVars, envVars, received>>

\* GET /api/students/:id: .select('*, classes (...)').eq('id', id).single()
GetStudent(r) ==
    /\ Issuable(r)
    /\ \E id \in RefStudentIds, served \in StoreOutcomes :
          LET found == IF served THEN Single({ s \in students : s.id = id }) ELSE Failure
          IN  /\ IF found.error
                 THEN Respond(r, "GET /students", id, 500, <<>>)
                 ELSE IF found.data = Null
                 THEN Respond(r, "GET /students", id, 404, <<>>)
                 ELSE Respond(r, "GET /students", id, 200, <<found.data>>)
              /\ Call(r, served)
    /\ UNCHANGED <<storeVars, pureVars, envVars, received>>

(***************************************************************************)
(* The class-and-date attendance view.                                     *)
(***************************************************************************)
Min(a, b) == IF a <= b THEN a ELSE b

\* text comparison of two names, letter by letter
NameLeq(a, b) ==
    \E k \in 0..Min(Len(a), Len(b)) :
        /\ \A i \in 1..k : a[i] = b[i]
        /\ \/ k = Len(a)
           \/ k < Len(a) /\ k < Len(b) /\ a[k + 1] < b[k + 1]

\* the listings of a set of rows, each row once
Listings(S) ==
    { f \in [1..Cardinality(S) -> S] : \A i, j \in 1..Cardinality(S) : i # j => f[i] # f[j] }

\* a query without .order('name'): the rows in any order
Unordered(S) == Listings(S)

\* .order('name'): the listings in ascending name order; equal names in any order
OrderByName(S) ==
    { f \in Listings(S) : \A i, j \in 1..Cardinality(S) : i < j => NameLeq(f[i].name, f[j].name) }

\* attendanceRecords.find(a => a.student_id === student.id)
Find(records, student) ==
    IF \E a \in records : a.student_id = student.id
    THEN CHOOSE a \in records : a.student_id = student.id
    ELSE Null

\* students.map(student => ({ ...student, attendance: ... }))
Merge(studs, attendanceRecords) ==
    [i \in 1..Len(studs) |->
        LET attendanceRecord == Find(attendanceRecords, studs[i])
        IN  [id |-> studs[i].id, name |-> studs[i].name,
             attendance |-> IF attendanceRecord # Null
                            THEN [id |-> attendanceRecord.id, status |-> attendanceRecord.status,
                                  date |-> attendanceRecord.date]
                            ELSE Null]]

ViewOps == {"GET /attendance/class/date", "db.getClassAttendanceForDate"}

\* GET /api/attendance/class/:classId/date/:date and db.getClassAttendanceForDate,
\* up to the await of the students of the class
GetClassDate(r) ==
    /\ Issuable(r)
    /\ \E op \in ViewOps, classId \in RefClassIds, date \in Dates, served \in StoreOutcomes :
          /\ IF served
             THEN \E studs \in OrderByName({ s \in students : s.class_id = classId }) :
                      reqs' = [reqs EXCEPT ![r] = [op |-> op, pc |-> "awaiting", code |-> 0,
                                                   arg |-> [classId |-> classId, date |-> date],
                                                   data |-> studs, body |-> Null]]
             ELSE Respond(r, op, [classId |-> classId, date |-> date], 500, <<>>)
          /\ Call(r, served)
    /\ UNCHANGED <<storeVars, pureVars, envVars, received>>

\* the attendance rows of those students on the date, merged into the students
GetClassDateMerge(r) ==
    /\ reqs[r].pc = "awaiting"
    /\ reqs[r].op \in ViewOps
    /\ \E served \in StoreOutcomes :
          LET studs == reqs[r].data
              studentIds == { studs[i].id : i \in 1..Len(studs) }
              attendanceRecords == { a \in attendance : a.student_id \in studentIds /\ a.date = reqs[r].arg.date }
          IN  /\ IF served THEN Finish(r, 200, Merge(studs, attendanceRecords)) ELSE Finish(r, 500, <<>>)
              /\ Call(r, served)
    /\ UNCHANGED <<storeVars, pureVars, envVars, received>>

(***************************************************************************)
(* The chart aggregation of GET /api/attendance/charts.                    *)
(***************************************************************************)
ZeroCounts == [s \in Statuses |-> 0]

\* chartData before the loop; daily is an object, kept with its keys in insertion order
EmptyChart == [daily |-> <<>>, statusCounts |-> ZeroCounts, trends |-> <<>>]

HasDate(daily, date) == \E k \in 1..Len(daily) : daily[k].date = date

\* a loop body that counts a status only for the first record of its date
ForEachBodyInsideIf(chart, record) ==
    IF HasDate(chart.daily, record.date)
    THEN [chart EXCEPT !.daily = [k \in 1..Len(chart.daily) |->
                                      IF chart.daily[k].date = record.date
                                      THEN [chart.daily[k] EXCEPT !.counts[record.status] = @ + 1]
                                      ELSE chart.daily[k]]]
    ELSE [chart EXCEPT !.statusCounts[record.status] = @ + 1,
                       !.daily = Append(chart.daily,
                                        [date |-> record.date,
                                         counts |-> [ZeroCounts EXCEPT ![record.status] = 1]])]

\* the body of data.forEach(record => ...)
ForEachBody(chart, record) ==
    LET counted == [chart EXCEPT !.statusCounts[record.status] = @ + 1]
        grouped == IF HasDate(counted.daily, record.date)
                   THEN counted.daily
                   ELSE Append(counted.daily, [date |-> record.date, counts |-> ZeroCounts])
    IN  [counted EXCEPT !.daily = [k \in 1..Len(grouped) |->
                                      IF grouped[k].date = record.date
                                      THEN [grouped[k] EXCEPT !.counts[record.status] = @ + 1]
                                      ELSE grouped[k]]]

RECURSIVE ForEach(_, _, _)
ForEach(chart, data, i) ==
    IF i > Len(data) THEN chart ELSE ForEach(ForEachBody(chart, data[i]), data, i + 1)

\* Object.entries(chartData.daily).map(([date, counts]) => ({ date, ...counts, total }))
Trends(daily) ==
    [k \in 1..Len(daily) |->
        [date |-> daily[k].date,
         Present |-> daily[k].counts["Present"],
         Absent |-> daily[k].counts["Absent"],
         Late |-> daily[k].counts["Late"],
         Excused |-> daily[k].counts["Excused"],
         total |-> daily[k].counts["Present"] + daily[k].counts["Absent"]
                   + daily[k].counts["Late"] + daily[k].counts["Excused"]]]

ChartData(data) ==
    LET chart == ForEach(EmptyChart, data, 1)
    IN  [chart EXCEPT !.trends = Trends(chart.daily)]

\* the processing of GET /api/attendance/charts on the rows the query returned
Charts ==
    /\ chartData = Null
    /\ chartData' = ChartData(rows)
    /\ UNCHANGED <<storeVars, reqs, rows, today, stats, envVars, failed, received>>

\* date-fns subDays(date, amount)
subDays(date, amount) == date - amount

ChartQueries ==
    [class_id : {Undefined} \cup { [uuid |-> id] : id \in RefClassIds },
     student_id : {Undefined} \cup { [uuid |-> id] : id \in RefStudentIds },
     days : {Undefined, [text |-> <<0>>], [text |-> <<2>>], [text |-> <<3>>]}]

\* an order of the rows that ignores their dates
AnyOrder(matching) ==
    { seq \in [1..Cardinality(matching) -> matching] :
        \A i, j \in 1..Cardinality(matching) : i # j => seq[i] # seq[j] }

RECURSIVE ByDate(_)
\* .order('date'): the orders the store may return, ties in any order
ByDate(matching) ==
    IF matching = {} THEN { <<>> }
    ELSE UNION { { <<a>> \o rest : rest \in ByDate(matching \ {a}) } :
                 a \in { x \in matching : \A y \in matching : x.date <= y.date } }

\* GET /api/attendance/charts: the query, then the processing of its rows
GetCharts(r) ==
    /\ Issuable(r)
    /\ \E query \in ChartQueries, served \in StoreOutcomes :
          LET days == IF query.days = Undefined THEN [number |-> 30] ELSE query.days
              startDate == subDays(Now, parseInt(days))
              endDate == Now
              matching == { a \in attendance :
                              /\ a.date >= startDate /\ a.date <= endDate
                              /\ query.student_id # Undefined => a.student_id = query.student_id.uuid }
          IN  /\ \E ordered \in ByDate(matching) :
                    LET data == [i \in 1..Len(ordered) |->
                                    [date |-> ordered[i].date, status |-> ordered[i].status,
                                     students |-> Embedded(ordered[i], query.class_id).students]]
                    IN  IF served
                        THEN /\ rows' = data
                             /\ chartData' = ChartData(data)
                             /\ Respond(r, "GET /attendance/charts", query, 200, ChartData(data))
                        ELSE /\ UNCHANGED <<rows, chartData>>
                             /\ Respond(r, "GET /attendance/charts", query, 500, <<>>)
              /\ Call(r, served)
    /\ UNCHANGED <<storeVars, today, stats, envVars, received>>

ChartInputs == UNION { [1..n -> [date : Dates, status : Statuses]] : n \in 0..MaxRows }

InitCharts == StoreInit /\ rows \in ChartInputs /\ chartData = Null /\ today = <<>> /\ stats = Null

(***************************************************************************)
(* The dashboard's attendance rate (loadDashboardData).                    *)
(***************************************************************************)
RECURSIVE PowMod2(_, _)
\* 2^n modulo t
PowMod2(n, t) == IF n = 0 THEN 1 % t ELSE (2 * PowMod2(n - 1, t)) % t

RECURSIVE QuotientBinade(_, _, _)
\* the least F >= f with present / total >= 2^-F
QuotientBinade(present, total, f) ==
    IF present * 2^f >= total THEN f ELSE QuotientBinade(present, total, f + 1)

RECURSIVE PercentBinade(_, _, _)
\* the least E >= e with 100 * present / total < 2^(E+1)
PercentBinade(present, total, e) ==
    IF 100 * present < total * 2^(e + 1) THEN e ELSE PercentBinade(present, total, e + 1)

\* Math.floor((present / total) * 100)
PercentFloor(present, total) == (100 * present) \div total

\* Math.round((present / total) * 100) in IEEE-754 doubles, for 0 <= present <= total,
\* total > 0. Off a tie the error of the division cannot move the product across
\* k + 1/2, and the result is the nearest integer. On a tie (the exact percentage is
\* k + 1/2) the result is k + 1 unless the quotient was rounded down by enough for
\* the product to round below k + 1/2: rho = r / total is the part of the quotient
\* below its 53rd bit.
PercentRound(present, total) ==
    LET halfUp == (200 * present + total) \div (2 * total)
        tie == (200 * present) % total = 0 /\ ((200 * present) \div total) % 2 = 1
        F == QuotientBinade(present, total, 0)
        E == IF 100 * present < total THEN 0 - 1 ELSE PercentBinade(present, total, 0)
        r == (present * PowMod2(52 + F, total)) % total
        gap == IF 200 * present = total THEN E + F - 2 ELSE E + F - 1
    IN  IF present = 0 THEN 0
        ELSE IF ~tie THEN halfUp
        ELSE IF 2 * r >= total THEN halfUp
        ELSE IF 100 * r > total * 2^gap THEN halfUp - 1
        ELSE halfUp

Count(statuses, s) == Cardinality({ i \in 1..Len(statuses) : statuses[i] = s })

\* the stats loadDashboardData sets from today's attendance rows
DashboardStats(todayAttendance) ==
    LET presentToday == Count(todayAttendance, "Present")
        absentToday == Count(todayAttendance, "Absent")
        totalToday == presentToday + absentToday
    IN  [totalStudents |-> Cardinality(students),
         totalClasses |-> Cardinality(classes),
         todayPresent |-> presentToday,
         todayAbsent |-> absentToday,
         attendanceRate |-> IF totalToday > 0 THEN PercentRound(presentToday, totalToday) ELSE 0]

LoadDashboardData ==
    /\ stats = Null
    /\ stats' = DashboardStats(today)
    /\ UNCHANGED <<storeVars, reqs, rows, chartData, today, envVars, failed, received>>

Repeat(s, n) == [i \in 1..n |-> s]

\* today's attendance with the given number of records of each status
TodayOf(present, absent, late, excused) ==
    Repeat("Present", present) \o Repeat("Absent", absent) \o Repeat("Late", late) \o Repeat("Excused", excused)

InitDashboard ==
    /\ StoreInit /\ rows = <<>> /\ chartData = Null /\ stats = Null
    /\ \E present \in 0..MaxCount, absent \in 0..MaxCount, late \in 0..MaxOther, excused \in 0..MaxOther :
          today = TodayOf(present, absent, late, excused)

(***************************************************************************)
(* Specifications.                                                         *)
(***************************************************************************)
Init == StoreInit /\ PureIdle

\* attendance writes (routes and front end) with student and class deletions
NextAttendance ==
    \E r \in Requests :
        \/ PostAttendance(r)
        \/ PostAttendanceUpsert(r)
        \/ DbRecordAttendance(r)
        \/ PostBulk(r)
        \/ PostBulkUpsert(r)
        \/ DbBulkRecordAttendance(r)
        \/ DeleteStudent(r)
        \/ DeleteClass(r)
        \/ DeleteClassDelete(r)

SpecAttendance == Init /\ [][NextAttendance]_vars

\* class creation and update (routes and front end)
NextClasses ==
    \E r \in Requests :
        \/ PostClass(r)
        \/ PostClassInsert(r)
        \/ DbCreateClass(r)
        \/ PutClass(r)
        \/ PutClassUpdate(r)

SpecClasses == Init /\ [][NextClasses]_vars

\* every operation on the store, requests overlapping at their awaits
Next ==
    \E r \in Requests :
        \/ PostAttendance(r)
        \/ PostAttendanceUpsert(r)
        \/ DbRecordAttendance(r)
        \/ PostBulk(r)
        \/ PostBulkUpsert(r)
        \/ DbBulkRecordAttendance(r)
        \/ GetClassDate(r)
        \/ GetClassDateMerge(r)
        \/ GetClass(r)
        \/ GetStudent(r)
        \/ PostClass(r)
        \/ PostClassInsert(r)
        \/ DbCreateClass(r)
        \/ PutClass(r)
        \/ PutClassUpdate(r)
        \/ DeleteClass(r)
        \/ DeleteClassDelete(r)
        \/ PostStudent(r)
        \/ PostStudentInsert(r)
        \/ DbCreateStudent(r)
        \/ PutStudent(r)
        \/ PutStudentUpdate(r)
        \/ DeleteStudent(r)

Spec == Init /\ [][Next]_vars

\* class deletion beside the routes that put a student into a class
NextDeleteRace ==
    \E r \in Requests :
        \/ DeleteClass(r)
        \/ DeleteClassDelete(r)
        \/ PostStudent(r)
        \/ PostStudentInsert(r)
        \/ PutStudent(r)
        \/ PutStudentUpdate(r)

SpecDeleteRace == Init /\ [][NextDeleteRace]_vars

\* the routes that check with one store call and write with another, over a
\* store whose calls may fail
NextFaulty ==
    \E r \in Requests :
        \/ PostAttendance(r)
        \/ PostAttendanceUpsert(r)
        \/ PostBulk(r)
        \/ PostBulkUpsert(r)
        \/ PostClass(r)
        \/ PostClassInsert(r)
        \/ PutClass(r)
        \/ PutClassUpdate(r)
        \/ DeleteClass(r)
        \/ DeleteClassDelete(r)
        \/ PostStudent(r)
        \/ PostStudentInsert(r)
        \/ PutStudent(r)
        \/ PutStudentUpdate(r)

InitFaulty == TablesInit /\ store = "failing" /\ bodies = "valid" /\ EnvInit /\ PureIdle

SpecFaulty == InitFaulty /\ [][NextFaulty]_vars

\* the validating routes, one request with any body
NextValidation ==
    \E r \in {1} :
        \/ PostAttendance(r)
        \/ PostAttendanceUpsert(r)
        \/ PostBulk(r)
        \/ PostBulkUpsert(r)
        \/ PostClass(r)
        \/ PostClassInsert(r)
        \/ PutClass(r)
        \/ PutClassUpdate(r)
        \/ PostStudent(r)
        \/ PostStudentInsert(r)
        \/ PutStudent(r)
        \/ PutStudentUpdate(r)

InitValidation == TablesInit /\ store = "reliable" /\ bodies = "any" /\ EnvInit /\ PureIdle

SpecValidation == InitValidation /\ [][NextValidation]_vars

\* a write of one record, then the list
NextList ==
    \/ \E r \in {1} : PostAttendance(r) \/ PostAttendanceUpsert(r)
    \/ \E r \in {2} : GetAttendance(r)

\* a store with a student in each class and the records of three days' marking:
\* a batch of two on day 1, then one record on day 2
InitList ==
    /\ classes = { [id |-> 1, class_name |-> "3A", grade |-> 3],
                   [id |-> 2, class_name |-> "4A", grade |-> 4] }
    /\ students = { [id |-> 1, name |-> <<19, 15>>, class_id |-> 1],
                    [id |-> 2, name |-> <<14, 15>>, class_id |-> 2] }
    /\ attendance = { [id |-> 1, student_id |-> 1, date |-> 1, status |-> "Present"],
                      [id |-> 2, student_id |-> 2, date |-> 1, status |-> "Absent"],
                      [id |-> 3, student_id |-> 1, date |-> 2, status |-> "Present"] }
    /\ createdAt = [id \in {1, 2, 3} |-> IF id = 3 THEN 3 ELSE 1]
    /\ nextClassId = 3
    /\ nextStudentId = 3
    /\ nextAttendanceId = 4
    /\ reqs = [r \in Requests |-> NoRequest]
    /\ failed = {}
    /\ received = [r \in Requests |-> Null]
    /\ store = "reliable" /\ bodies = "valid" /\ EnvInit
    /\ PureIdle

SpecList == InitList /\ [][NextList]_vars

\* one export of either kind
NextExport ==
    \E r \in {1} :
        \/ ExportAttendance(r)
        \/ ExportStudents(r)

\* a store with a student in each class and a record inside each period and
\* outside all of them
InitExport ==
    /\ classes = { [id |-> 1, class_name |-> "3A", grade |-> 3],
                   [id |-> 2, class_name |-> "4A", grade |-> 4] }
    /\ students = { [id |-> 1, name |-> <<19, 15>>, class_id |-> 1],
                    [id |-> 2, name |-> <<14, 15>>, class_id |-> 2] }
    /\ attendance = { [id |-> 1, student_id |-> 1, date |-> subMonths(Now, 12) - 1, status |-> "Present"],
                      [id |-> 2, student_id |-> 1, date |-> subMonths(Now, 6) - 1, status |-> "Absent"],
                      [id |-> 3, student_id |-> 2, date |-> subMonths(Now, 3) - 1, status |-> "Present"],
                      [id |-> 4, student_id |-> 1, date |-> subMonths(Now, 1) - 1, status |-> "Present"],
                      [id |-> 5, student_id |-> 2, date |-> subMonths(Now, 1), status |-> "Absent"],
                      [id |-> 6, student_id |-> 1, date |-> Now, status |-> "Present"],
                      [id |-> 7, student_id |-> 2, date |-> Now + 1, status |-> "Present"] }
    /\ createdAt = [id \in 1..7 |-> id]
    /\ nextClassId = 3
    /\ nextStudentId = 3
    /\ nextAttendanceId = 8
    /\ reqs = [r \in Requests |-> NoRequest]
    /\ failed = {}
    /\ received = [r \in Requests |-> Null]
    /\ store = "reliable" /\ bodies = "valid" /\ EnvInit
    /\ PureIdle

SpecExport == InitExport /\ [][NextExport]_vars

\* every path that writes a class or a student: the routes with any body, and
\* the front end's forms
NextCreate ==
    \E r \in {1} :
        \/ PostClass(r)
        \/ PostClassInsert(r)
        \/ PutClass(r)
        \/ PutClassUpdate(r)
        \/ PostStudent(r)
        \/ PostStudentInsert(r)
        \/ PutStudent(r)
        \/ PutStudentUpdate(r)
        \/ AddClassSubmit(r)
        \/ AddStudentSubmit(r)

SpecCreate == InitValidation /\ [][NextCreate]_vars

\* requests for the chart data
NextChartRoute == \E r \in Requests : GetCharts(r)

\* a store with a student in each class and records on today, on the first day
\* of the windows, before them and after today
InitChartRoute ==
    /\ classes = { [id |-> 1, class_name |-> "3A", grade |-> 3],
                   [id |-> 2, class_name |-> "4A", grade |-> 4] }
    /\ students = { [id |-> 1, name |-> <<19, 15>>, class_id |-> 1],
                    [id |-> 2, name |-> <<14, 15>>, class_id |-> 2] }
    /\ attendance = { [id |-> 1, student_id |-> 2, date |-> subDays(Now, 31), status |-> "Absent"],
                      [id |-> 2, student_id |-> 1, date |-> subDays(Now, 30), status |-> "Present"],
                      [id |-> 3, student_id |-> 2, date |-> subDays(Now, 3), status |-> "Late"],
                      [id |-> 4, student_id |-> 1, date |-> subDays(Now, 2), status |-> "Absent"],
                      [id |-> 5, student_id |-> 1, date |-> Now, status |-> "Present"],
                      [id |-> 6, student_id |-> 2, date |-> Now, status |-> "Absent"],
                      [id |-> 7, student_id |-> 1, date |-> Now + 1, status |-> "Present"] }
    /\ createdAt = [id \in 1..7 |-> id]
    /\ nextClassId = 3
    /\ nextStudentId = 3
    /\ nextAttendanceId = 8
    /\ reqs = [r \in Requests |-> NoRequest]
    /\ failed = {}
    /\ received = [r \in Requests |-> Null]
    /\ store = "reliable" /\ bodies = "valid" /\ EnvInit
    /\ PureIdle

SpecChartRoute == InitChartRoute /\ [][NextChartRoute]_vars

\* routes over a store whose calls may fail, each request's failure with a
\* message of its own, in a process of any NODE_ENV
NextLeak ==
    \E r \in Requests :
        \/ PostAttendance(r)
        \/ PostAttendanceUpsert(r)
        \/ PostClass(r)
        \/ PostClassInsert(r)
        \/ GetClass(r)
        \/ ErrorMiddleware(r)

InitLeak ==
    /\ TablesInit /\ PureIdle
    /\ store = "failing" /\ bodies = "valid"
    /\ fault \in [Requests -> ErrorDetails]
    /\ nodeEnv \in Environments

SpecLeak == InitLeak /\ [][NextLeak]_vars

\* what the server does with request r: the middleware and the handler of its
\* route up to the first await, or the continuation of the handler after it
Serve(r) ==
    \/ PostBulk(r)
    \/ PostBulkUpsert(r)
    \/ PostClass(r)
    \/ PostClassInsert(r)
    \/ ErrorMiddleware(r)
    \/ NotFoundHandler(r)

\* the bulk attendance write and the class creation (an existence check, then a
\* write), the error middleware and the 404 handler, the store failing at will
NextServer ==
    \E r \in Requests :
        \/ PostBulk(r)
        \/ PostBulkUpsert(r)
        \/ PostClass(r)
        \/ PostClassInsert(r)
        \/ ErrorMiddleware(r)
        \/ NotFoundHandler(r)

\* every store call settles and the event loop runs the continuation of each
\* settled await; every request that is sent is received
InitServer == TablesInit /\ store = "failing" /\ bodies = "few" /\ EnvInit /\ PureIdle

SpecServer == InitServer /\ [][NextServer]_vars /\ \A r \in Requests : WF_vars(Serve(r))

\* no other request is between its two store calls
Alone(r) == \A q \in Requests \ {r} : reqs[q].pc # "awaiting"

\* every operation on the store, each request run alone from issue to response
NextAlone ==
    \E r \in Requests :
        \/ Alone(r) /\ PostAttendance(r)
        \/ Alone(r) /\ PostAttendanceUpsert(r)
        \/ Alone(r) /\ DbRecordAttendance(r)
        \/ Alone(r) /\ PostBulk(r)
        \/ Alone(r) /\ PostBulkUpsert(r)
        \/ Alone(r) /\ DbBulkRecordAttendance(r)
        \/ Alone(r) /\ GetClassDate(r)
        \/ Alone(r) /\ GetClassDateMerge(r)
        \/ Alone(r) /\ GetClass(r)
        \/ Alone(r) /\ GetStudent(r)
        \/ Alone(r) /\ PostClass(r)
        \/ Alone(r) /\ PostClassInsert(r)
        \/ Alone(r) /\ DbCreateClass(r)
        \/ Alone(r) /\ PutClass(r)
        \/ Alone(r) /\ PutClassUpdate(r)
        \/ Alone(r) /\ DeleteClass(r)
        \/ Alone(r) /\ DeleteClassDelete(r)
        \/ Alone(r) /\ PostStudent(r)
        \/ Alone(r) /\ PostStudentInsert(r)
        \/ Alone(r) /\ DbCreateStudent(r)
        \/ Alone(r) /\ PutStudent(r)
        \/ Alone(r) /\ PutStudentUpdate(r)
        \/ Alone(r) /\ DeleteStudent(r)

SpecAlone == Init /\ [][NextAlone]_vars

\* the chart aggregation applied to every bounded sequence of rows
SpecCharts == InitCharts /\ [][Charts]_vars

\* the dashboard's stats computed from every bounded composition of today's rows
SpecDashboard == InitDashboard /\ [][LoadDashboardData]_vars

(***************************************************************************)
(* Properties.                                                             *)
(***************************************************************************)
Done(r) == reqs[r].pc = "done"

\* request r takes a step
Stepped(r) == reqs'[r].pc # reqs[r].pc

SingleWriteOps == {"POST /attendance", "db.recordAttendance"}
BulkWriteOps == {"POST /attendance/bulk", "db.bulkRecordAttendance"}

\* the stamped records a write request carries
BatchOf(req) == IF req.op \in SingleWriteOps THEN <<req.arg>> ELSE req.arg

BatchKeys(req) == { KeyOf(BatchOf(req)[i]) : i \in 1..Len(BatchOf(req)) }

RecordsOf(att, key) == { a \in att : KeyOf(a) = key }

\* C1: the attendance table holds at most one record for each (student_id, date)
\* pair, whatever single writes, bulk writes and student/class deletions ran.
C1_OneRecordPerStudentDate ==
    \A a, b \in attendance : KeyOf(a) = KeyOf(b) => a = b

\* two successful writes proposed the same pair and its record is stored
C1_Witness ==
    \E r, q \in Requests :
        /\ r # q /\ Done(r) /\ Done(q)
        /\ reqs[r].code = 201 /\ reqs[q].code = 201
        /\ reqs[r].op \in SingleWriteOps /\ reqs[q].op \in BulkWriteOps
        /\ \E k \in BatchKeys(reqs[r]) \cap BatchKeys(reqs[q]) : RecordsOf(attendance, k) # {}

\* C2: a successful single attendance write leaves exactly one record for its
\* pair, carrying its status; when the pair already holds that status the table is
\* unchanged, and when it holds another the record is the same row with the new status.
C2_SingleWriteIdempotent ==
    [][\A r \in Requests :
          (Stepped(r) /\ reqs'[r].op \in SingleWriteOps /\ reqs'[r].code = 201) =>
              LET value == reqs'[r].arg
                  before == RecordsOf(attendance, KeyOf(value))
                  after == RecordsOf(attendance', KeyOf(value))
              IN  /\ Cardinality(after) = 1
                  /\ \A a \in after : a.status = value.status
                  /\ (\E a \in before : a.status = value.status) => attendance' = attendance
                  /\ before # {} => /\ Cardinality(attendance') = Cardinality(attendance)
                                    /\ { a.id : a \in after } = { a.id : a \in before }
    ]_vars

\* the same (student, date, status) was submitted twice, both times with success
C2_Witness ==
    /\ Done(1) /\ Done(2)
    /\ reqs[1].op \in SingleWriteOps /\ reqs[2].op \in SingleWriteOps
    /\ reqs[1].code = 201 /\ reqs[2].code = 201
    /\ reqs[1].arg = reqs[2].arg
    /\ Cardinality(RecordsOf(attendance, KeyOf(reqs[2].arg))) = 1

UnknownIn(req, studs) == \E i \in 1..Len(req.arg) : req.arg[i].student_id \notin Ids(studs)

\* C3: a step of POST /api/attendance/bulk taken while one of its student ids
\* matches no student changes no attendance record; at the lookup it answers 400
\* and issues no upsert; and the upsert is only ever issued after the lookup.
C3_BulkUnknownStudentWritesNothing ==
    [][\A r \in Requests :
          (Stepped(r) /\ reqs'[r].op = "POST /attendance/bulk") =>
              /\ reqs[r].pc = "new" => attendance' = attendance
              /\ reqs'[r].code = 201 => reqs[r].pc = "awaiting"
              /\ UnknownIn(reqs'[r], students) =>
                    /\ attendance' = attendance
                    /\ nextAttendanceId' = nextAttendanceId
                    /\ reqs'[r].pc = "done"
                    /\ reqs'[r].code = IF reqs[r].pc = "new" THEN 400 ELSE 500
    ]_vars

\* a rejected batch names an unknown student beside a student whose stored
\* record for the date has another status than the batch asks for
C3_Witness ==
    \E r \in Requests :
        /\ Done(r) /\ reqs[r].op = "POST /attendance/bulk" /\ reqs[r].code = 400
        /\ UnknownIn(reqs[r], students)
        /\ \E i \in 1..Len(reqs[r].arg) :
              \E a \in attendance : KeyOf(a) = KeyOf(reqs[r].arg[i]) /\ a.status # reqs[r].arg[i].status

\* C4: no two class rows have the same (class_name, grade) pair.
C4_ClassNameGradeUnique ==
    \A c, d \in classes : SameNameGrade(c, d) => c = d

\* C5: run alone, DELETE /api/classes/:id on a class that owns a student answers
\* 400 and changes nothing; on an existing class that owns none it answers 200 and
\* removes exactly that class row.
C5_DeleteClassAlone ==
    [][\A r \in Requests :
          (Stepped(r) /\ reqs'[r].op = "DELETE /classes") =>
              LET id == reqs'[r].arg
                  owned == { s \in students : s.class_id = id }
              IN  /\ owned # {} =>
                        /\ reqs'[r].pc = "done" /\ reqs'[r].code = 400
                        /\ classes' = classes /\ students' = students /\ attendance' = attendance
                  /\ (owned = {} /\ reqs[r].pc = "new") =>
                        /\ reqs'[r].pc = "awaiting"
                        /\ classes' = classes /\ students' = students /\ attendance' = attendance
                  /\ (owned = {} /\ reqs[r].pc = "awaiting" /\ id \in Ids(classes)) =>
                        /\ reqs'[r].code = 200
                        /\ classes' = { c \in classes : c.id # id }
                        /\ Cardinality(classes') = Cardinality(classes) - 1
                        /\ students' = students /\ attendance' = attendance
    ]_vars

\* one deletion was rejected for a class with students, another removed a class
C5_Witness ==
    \E r, q \in Requests :
        /\ Done(r) /\ reqs[r].op = "DELETE /classes" /\ reqs[r].code = 400
        /\ \E s \in students : s.class_id = reqs[r].arg
        /\ Done(q) /\ reqs[q].op = "DELETE /classes" /\ reqs[q].code = 200
        /\ reqs[q].arg \notin Ids(classes)

RouteWriteOps == {"POST /attendance", "POST /attendance/bulk"}

\* C6: the upsert of an attendance route whose students all exist succeeds,
\* whatever other write ran between its lookup and its upsert, and leaves exactly
\* one record for each of its pairs, carrying its own status: the last upsert wins.
C6_LastWriterWins ==
    [][\A r \in Requests :
          ( /\ reqs[r].pc = "awaiting" /\ Stepped(r)
            /\ reqs[r].op \in RouteWriteOps
            /\ \A i \in 1..Len(BatchOf(reqs[r])) : BatchOf(reqs[r])[i].student_id \in Ids(students) ) =>
              /\ reqs'[r].code = 201
              /\ \A i \in 1..Len(BatchOf(reqs[r])) :
                    LET row == BatchOf(reqs[r])[i]
                        after == RecordsOf(attendance', KeyOf(row))
                    IN  Cardinality(after) = 1 /\ \A a \in after : a.status = row.status
    ]_vars

\* a single and a bulk write for the same pair with different statuses have both
\* passed their lookup and neither has issued its upsert
C6_Witness ==
    /\ reqs[1].pc = "awaiting" /\ reqs[2].pc = "awaiting"
    /\ reqs[1].op = "POST /attendance" /\ reqs[2].op = "POST /attendance/bulk"
    /\ \E i \in 1..Len(reqs[2].arg) :
          /\ KeyOf(reqs[2].arg[i]) = KeyOf(reqs[1].arg)
          /\ reqs[2].arg[i].status # reqs[1].arg.status

ReferencesHold ==
    /\ \A s \in students : s.class_id \in Ids(classes)
    /\ \A a \in attendance : a.student_id \in Ids(students)

\* C7: every student row references an existing class and every attendance row
\* an existing student; a student deletion removes that student's attendance
\* records and no other row.
C7_ReferentialIntegrity ==
    /\ []ReferencesHold
    /\ [][\A r \in Requests :
             (Stepped(r) /\ reqs'[r].op = "DELETE /students" /\ reqs'[r].code = 200) =>
                 /\ students' = { s \in students : s.id # reqs'[r].arg }
                 /\ attendance' = { a \in attendance : a.student_id # reqs'[r].arg }
                 /\ classes' = classes
       ]_vars

\* a student with a record was deleted while another student's record stayed
C7_Witness ==
    \E r, q \in Requests :
        /\ Done(r) /\ reqs[r].op = "DELETE /students" /\ reqs[r].code = 200
        /\ Done(q) /\ reqs[q].op \in BulkWriteOps /\ reqs[q].code = 201
        /\ \E i \in 1..Len(reqs[q].arg) : reqs[q].arg[i].student_id = reqs[r].arg
        /\ attendance # {}
        /\ \A a \in attendance : a.student_id # reqs[r].arg

\* C8: the class-and-date view lists every student of the class once, in
\* ascending name order, and no other; a student's attendance is the id, status
\* and date of the stored record for (student, date), and null when there is none.
C8_ClassDateView ==
    [][\A r \in Requests :
          (Stepped(r) /\ reqs'[r].op \in ViewOps /\ reqs'[r].pc = "done") =>
              LET view == reqs'[r].data
                  members == { s \in students : s.class_id = reqs'[r].arg.classId }
                  date == reqs'[r].arg.date
              IN  /\ reqs'[r].code = 200
                  /\ Len(view) = Cardinality(members)
                  /\ { [id |-> view[i].id, name |-> view[i].name] : i \in 1..Len(view) }
                        = { [id |-> s.id, name |-> s.name] : s \in members }
                  /\ \A i, j \in 1..Len(view) : i < j => NameLeq(view[i].name, view[j].name)
                  /\ \A i \in 1..Len(view) :
                        LET stored == RecordsOf(attendance, <<view[i].id, date>>)
                        IN  /\ view[i].attendance = Null <=> stored = {}
                            /\ view[i].attendance # Null =>
                                  \E a \in stored :
                                      view[i].attendance = [id |-> a.id, status |-> a.status, date |-> a.date]
    ]_vars

\* a view of two students, one with a record on the date and one without
C8_Witness ==
    \E r \in Requests :
        /\ Done(r) /\ reqs[r].op \in ViewOps
        /\ Len(reqs[r].data) = 2
        /\ reqs[r].data[1].attendance = Null
        /\ reqs[r].data[2].attendance # Null

CountRows(P(_)) == Cardinality({ i \in 1..Len(rows) : P(rows[i]) })

DailyOf(date) == CHOOSE entry \in { chartData.daily[k] : k \in 1..Len(chartData.daily) } : entry.date = date

RECURSIVE SumTotals(_, _)
SumTotals(trends, k) == IF k = 0 THEN 0 ELSE trends[k].total + SumTotals(trends, k - 1)

\* C9: statusCounts[s] is the number of rows with status s, daily[d][s] the
\* number of rows with date d and status s, trends has one entry per date with the
\* counts of daily[d] and their sum as total; the totals and the statusCounts both
\* add up to the number of rows.
C9_ChartAggregation ==
    chartData # Null =>
        LET dates == { rows[i].date : i \in 1..Len(rows) }
            counts == chartData.statusCounts
            trends == chartData.trends
        IN  /\ \A s \in Statuses : counts[s] = CountRows(LAMBDA row : row.status = s)
            /\ { chartData.daily[k].date : k \in 1..Len(chartData.daily) } = dates
            /\ Len(chartData.daily) = Cardinality(dates)
            /\ \A d \in dates : \A s \in Statuses :
                  DailyOf(d).counts[s] = CountRows(LAMBDA row : row.date = d /\ row.status = s)
            /\ Len(trends) = Cardinality(dates)
            /\ \A d \in dates :
                  \E k \in 1..Len(trends) :
                      /\ trends[k].date = d
                      /\ trends[k].Present = DailyOf(d).counts["Present"]
                      /\ trends[k].Absent = DailyOf(d).counts["Absent"]
                      /\ trends[k].Late = DailyOf(d).counts["Late"]
                      /\ trends[k].Excused = DailyOf(d).counts["Excused"]
                      /\ trends[k].total = trends[k].Present + trends[k].Absent
                                           + trends[k].Late + trends[k].Excused
            /\ SumTotals(trends, Len(trends)) = Len(rows)
            /\ counts["Present"] + counts["Absent"] + counts["Late"] + counts["Excused"] = Len(rows)

\* the aggregation of (day 1, Present), (day 1, Absent), (day 2, Present)
C9_Witness ==
    /\ rows = << [date |-> 1, status |-> "Present"], [date |-> 1, status |-> "Absent"],
                 [date |-> 2, status |-> "Present"] >>
    /\ chartData # Null
    /\ chartData.trends =
          << [date |-> 1, Present |-> 1, Absent |-> 1, Late |-> 0, Excused |-> 0, total |-> 2],
             [date |-> 2, Present |-> 1, Absent |-> 0, Late |-> 0, Excused |-> 0, total |-> 1] >>
    /\ chartData.statusCounts["Present"] = 2 /\ chartData.statusCounts["Absent"] = 1

\* C10: the attendance rate is 0 when present + absent = 0 and otherwise an
\* integer nearest to 100 * present / (present + absent); it lies in 0..100 and is
\* the same for every number of Late and Excused records.
C10_AttendanceRate ==
    stats # Null =>
        LET present == Count(today, "Present")
            absent == Count(today, "Absent")
            rate == stats.attendanceRate
        IN  /\ rate \in 0..100
            /\ present + absent = 0 => rate = 0
            /\ present + absent > 0 =>
                  /\ 2 * (rate * (present + absent) - 100 * present) <= present + absent
                  /\ 2 * (100 * present - rate * (present + absent)) <= present + absent
            /\ \A late \in 0..MaxOther, excused \in 0..MaxOther :
                  DashboardStats(TodayOf(present, absent, late, excused)).attendanceRate = rate

\* 7 Present and 3 Absent with a Late record give 70
C10_Witness ==
    /\ stats # Null
    /\ stats.todayPresent = 7 /\ stats.todayAbsent = 3
    /\ Count(today, "Late") = 1
    /\ stats.attendanceRate = 70

\* the operations that address one class or one student by the id in the path,
\* and the position at which each issues its store call on that id
ClassByIdOps == {"GET /classes", "PUT /classes", "DELETE /classes"}
StudentByIdOps == {"GET /students", "PUT /students", "DELETE /students"}

IdOf(req) == IF req.op \in {"PUT /classes", "PUT /students"} THEN req.arg.id ELSE req.arg

CallsById(r) ==
    /\ Stepped(r) /\ reqs'[r].pc = "done"
    /\ \/ reqs'[r].op \in {"GET /classes", "GET /students", "DELETE /students"}
       \/ reqs'[r].op \in {"PUT /classes", "DELETE /classes", "PUT /students"} /\ reqs[r].pc = "awaiting"

MissingId(r) ==
    \/ reqs'[r].op \in ClassByIdOps /\ IdOf(reqs'[r]) \notin Ids(classes)
    \/ reqs'[r].op \in StudentByIdOps /\ IdOf(reqs'[r]) \notin Ids(students)

\* C11: a get, update or delete of a class or a student whose id matches no row
\* answers 404 (not found), never 500 (store failure).
C11_MissingIdNotFound ==
    [][\A r \in Requests : (CallsById(r) /\ MissingId(r)) => reqs'[r].code = 404]_vars

\* the class a student create or update refers to
ClassIdOf(req) == IF req.op = "PUT /students" THEN req.arg.value.class_id ELSE req.arg.class_id

\* request r takes a step of a route while the row it refers to does not exist
RefersToNoRow(r) ==
    \/ reqs'[r].op \in {"POST /students", "PUT /students"} /\ ClassIdOf(reqs'[r]) \notin Ids(classes)
    \/ reqs'[r].op = "POST /attendance" /\ reqs'[r].arg.student_id \notin Ids(students)

\* C12: a step of POST or PUT /api/students whose class_id matches no class, or of
\* POST /api/attendance whose student_id matches no student, ends the request with
\* an error (400 at the lookup, so that no write is issued; 500 when the row
\* vanished after the lookup) and leaves the three tables as they were.
C12_UnknownReferenceWritesNothing ==
    [][\A r \in Requests :
          (Stepped(r) /\ RefersToNoRow(r)) =>
              /\ reqs'[r].pc = "done"
              /\ reqs'[r].code = IF reqs[r].pc = "new" THEN 400 ELSE 500
              /\ classes' = classes /\ students' = students /\ attendance' = attendance
    ]_vars

\* a student create lost its class between the lookup and the insert, and an
\* attendance write named an unknown student
C12_ClassVanished ==
    \E r, q \in Requests :
        /\ Done(r) /\ reqs[r].op = "POST /students" /\ reqs[r].code = 500
        /\ reqs[r].arg.class_id \notin Ids(classes)
        /\ \A s \in students : s.class_id # reqs[r].arg.class_id
        /\ Done(q) /\ reqs[q].op = "DELETE /classes" /\ reqs[q].code = 200

\* an attendance write and a student update were rejected at their lookups
C12_Witness ==
    \E r, q \in Requests :
        /\ Done(r) /\ reqs[r].op = "POST /attendance" /\ reqs[r].code = 400
        /\ reqs[r].arg.student_id \notin Ids(students)
        /\ Done(q) /\ reqs[q].op = "PUT /students" /\ reqs[q].code = 400
        /\ reqs[q].arg.value.class_id \notin Ids(classes)

\* C14: an attendance record stays, as the same row for the same (student, date),
\* across every step after which its student still exists; it disappears only in a
\* step that deletes its student, and a deleted student never comes back.
C14_AttendancePersists ==
    [][/\ \A a \in attendance :
             a.student_id \in Ids(students') =>
                 \E b \in attendance' : b.id = a.id /\ KeyOf(b) = KeyOf(a)
       /\ \A a \in attendance :
             (\A b \in attendance' : KeyOf(b) # KeyOf(a)) =>
                 a.student_id \in Ids(students) \ Ids(students')
       /\ \A id \in RefStudentIds : id \in Ids(students') => id \in Ids(students)
    ]_vars

\* a record written for a student is still stored beside the record a bulk write
\* made for the same student on another date
C14_Witness ==
    \E r, q \in Requests :
        /\ Done(r) /\ reqs[r].op \in SingleWriteOps /\ reqs[r].code = 201
        /\ Done(q) /\ reqs[q].op \in BulkWriteOps /\ reqs[q].code = 201
        /\ \E i \in 1..Len(reqs[q].arg) :
              /\ reqs[q].arg[i].student_id = reqs[r].arg.student_id
              /\ reqs[q].arg[i].date # reqs[r].arg.date
        /\ RecordsOf(attendance, KeyOf(reqs[r].arg)) # {}
        /\ Cardinality(attendance) >= 2

\* C19: a step that removes a class row removes no student and no attendance
\* record, whatever student creates and updates run beside the deletion.
C19_DeleteClassNeverCascades ==
    [][\A r \in Requests :
          (Stepped(r) /\ reqs'[r].op = "DELETE /classes" /\ classes' # classes) =>
              /\ \A s \in students : s.class_id # reqs'[r].arg
              /\ students' = students
              /\ attendance' = attendance
    ]_vars

\* C17: a bulk attendance write that succeeds leaves, for every record of its
\* batch, exactly one stored record for (student, shared date) with the batch's
\* status; every row it wrote carries the shared date; its response holds one
\* enriched row for each record; and in the route the records upserted are the
\* ones stamped before the batch lookup, which came before the upsert.
C17_BulkWrite ==
    [][\A r \in Requests :
          (Stepped(r) /\ reqs'[r].op \in BulkWriteOps /\ reqs'[r].code = 201) =>
              LET R == reqs'[r].arg
                  D == R[1].date
                  response == reqs'[r].data
              IN  /\ \A i \in 1..Len(R) :
                        /\ R[i].date = D
                        /\ Cardinality(RecordsOf(attendance', KeyOf(R[i]))) = 1
                        /\ \A a \in RecordsOf(attendance', KeyOf(R[i])) : a.status = R[i].status
                  /\ \A a \in attendance' \ attendance : a.date = D /\ KeyOf(a) \in BatchKeys(reqs'[r])
                  /\ \A a \in attendance \ attendance' : a.date = D /\ KeyOf(a) \in BatchKeys(reqs'[r])
                  /\ DOMAIN response = 1..Len(R)
                  /\ \A i \in 1..Len(R) :
                        /\ [id |-> response[i].id, student_id |-> response[i].student_id,
                            date |-> response[i].date, status |-> response[i].status] \in attendance'
                        /\ response[i].student_id = R[i].student_id
                        /\ response[i].date = D /\ response[i].status = R[i].status
                        /\ response[i].students.id = R[i].student_id
                  /\ reqs'[r].op = "POST /attendance/bulk" =>
                        reqs[r].pc = "awaiting" /\ reqs[r].arg = R
    ]_vars

\* a bulk write of two students succeeded where one of them already had a record
\* for the date with the other status
C17_Witness ==
    \E r, q \in Requests :
        /\ Done(q) /\ reqs[q].op \in SingleWriteOps /\ reqs[q].code = 201
        /\ Done(r) /\ reqs[r].op = "POST /attendance/bulk" /\ reqs[r].code = 201
        /\ Len(reqs[r].arg) = 2 /\ Len(reqs[r].data) = 2
        /\ \E i \in 1..2 :
              /\ KeyOf(reqs[r].arg[i]) = KeyOf(reqs[q].arg)
              /\ reqs[r].arg[i].status # reqs[q].arg.status
              /\ reqs[r].data[i].status = reqs[r].arg[i].status
        /\ Cardinality(attendance) = 2

\* C20: the step in which a store call of an operation fails ends the operation
\* with a 500 (so that it issues no write afterwards) and changes no table.
C20_StoreFailureAnswers500 ==
    [][\A r \in Requests :
          (r \in failed' /\ r \notin failed) =>
              /\ reqs'[r].pc = "done" /\ reqs'[r].code = 500
              /\ classes' = classes /\ students' = students /\ attendance' = attendance
    ]_vars

\* C20 (its read-only checks): no request whose store call has failed goes on
\* to change a table.
C20_NoWriteAfterFailure ==
    [][\A r \in Requests :
          (r \in failed /\ Stepped(r)) =>
              classes' = classes /\ students' = students /\ attendance' = attendance
    ]_vars

ValidatingOps ==
    {"POST /classes", "PUT /classes", "POST /students", "PUT /students", "POST /attendance",
     "POST /attendance/bulk"}

\* the keys of a route's payload, in the order their rules are stated
RuleOrder(op) ==
    IF op \in {"POST /classes", "PUT /classes"} THEN <<"class_name", "grade">>
    ELSE IF op \in {"POST /students", "PUT /students"} THEN <<"name", "class_id", "gender", "date_of_birth">>
    ELSE IF op = "POST /attendance" THEN <<"student_id", "date", "status">>
    ELSE <<"date", "records">>

\* the number of characters of a text, -1 for what is no text
CharactersOf(v) ==
    IF "string" \in DOMAIN v THEN Len(v.string)
    ELSE IF "chars" \in DOMAIN v THEN Len(v.chars)
    ELSE -1

\* the field rule of a key holds for what the payload carries under it
FieldHolds(key, v) ==
    IF key = "class_name" THEN CharactersOf(v) >= 1 /\ CharactersOf(v) <= 50
    ELSE IF key = "grade" THEN v = [string |-> "7"] \/ \E n \in 1..12 : v = [halves |-> 2 * n]
    ELSE IF key = "name" THEN CharactersOf(v) >= 2 /\ CharactersOf(v) <= 100
    ELSE IF key \in {"class_id", "student_id"} THEN "uuid" \in DOMAIN v
    ELSE IF key = "gender" THEN \E g \in {"Male", "Female"} : v = [string |-> g]
    ELSE IF key = "date_of_birth" THEN "day" \in DOMAIN v /\ v.day + v.shift <= Now
    ELSE IF key = "date" THEN "day" \in DOMAIN v
    ELSE IF key = "status" THEN \E t \in {"Present", "Absent", "Late", "Excused"} : v = [string |-> t]
    ELSE \* records
         /\ "items" \in DOMAIN v
         /\ Len(v.items) >= 1
         /\ \A i \in 1..Len(v.items) :
               /\ "uuid" \in DOMAIN FieldOf(v.items[i], "student_id")
               /\ \E t \in {"Present", "Absent", "Late", "Excused"} :
                     FieldOf(v.items[i], "status") = [string |-> t]

\* the positions in RuleOrder(op) of the keys whose rule the body violates
Violated(op, body) ==
    { k \in 1..Len(RuleOrder(op)) : ~FieldHolds(RuleOrder(op)[k], FieldOf(body, RuleOrder(op)[k])) }

\* the keys of the body that the route's payload does not have
Extra(op, body) == DOMAIN body \ { RuleOrder(op)[k] : k \in 1..Len(RuleOrder(op)) }

\* request r was answered by the validation: a 400 that carries a message
Rejected(q) == q.pc = "done" /\ q.code = 400 /\ q.data # <<>>

\* request r of a validating route takes its first step
Validates(r) == reqs[r].pc = "new" /\ Stepped(r) /\ reqs'[r].op \in ValidatingOps

\* C13 (as stated): the validation accepts a payload if and only if every field
\* rule holds; a rejection is a 400 with exactly one message, that of the first
\* violated rule, and leaves the store untouched.
C13_AcceptsIffFieldRulesHold ==
    [][\A r \in Requests :
          Validates(r) =>
              LET op == reqs'[r].op
                  body == received'[r]
                  first == CHOOSE k \in Violated(op, body) : \A j \in Violated(op, body) : k <= j
              IN  /\ ~Rejected(reqs'[r]) <=> Violated(op, body) = {}
                  /\ Rejected(reqs'[r]) =>
                        /\ Len(reqs'[r].data) = 1
                        /\ reqs'[r].data[1].key = RuleOrder(op)[first]
                        /\ UNCHANGED storeVars
    ]_vars

\* C13 (amended): the validation accepts a payload if and only if every field
\* rule holds and the payload has no key besides the fields; a rejection is a 400
\* with exactly one message, that of the first violated rule in the order of the
\* fields, or of a key that is not a field when no rule is violated, and leaves
\* the store untouched.
C13_AcceptsIffRulesHoldAndNoOtherKey ==
    [][\A r \in Requests :
          Validates(r) =>
              LET op == reqs'[r].op
                  body == received'[r]
                  first == CHOOSE k \in Violated(op, body) : \A j \in Violated(op, body) : k <= j
              IN  /\ ~Rejected(reqs'[r]) <=> (Violated(op, body) = {} /\ Extra(op, body) = {})
                  /\ Rejected(reqs'[r]) =>
                        /\ Len(reqs'[r].data) = 1
                        /\ IF Violated(op, body) # {}
                           THEN reqs'[r].data[1].key = RuleOrder(op)[first]
                           ELSE reqs'[r].data[1].key \in Extra(op, body)
                                   /\ reqs'[r].data[1].type = "object.unknown"
                        /\ UNCHANGED storeVars
    ]_vars

\* a class payload whose grade is above 12 and whose name is empty was rejected
\* with the message of the name, and a payload was accepted
C13_Witness ==
    \E r \in Requests :
        /\ Done(r) /\ reqs[r].op = "POST /classes" /\ reqs[r].code = 400
        /\ received[r] = [class_name |-> [string |-> ""], grade |-> [halves |-> 26]]
        /\ reqs[r].data = << [key |-> "class_name", type |-> "string.empty", at |-> Null] >>

\* a class payload within every rule was accepted and written
C13_Accepted ==
    \E r \in Requests :
        /\ Done(r) /\ reqs[r].op = "POST /classes" /\ reqs[r].code = 201
        /\ received[r] = [class_name |-> [string |-> Pad(50)], grade |-> [string |-> "7"]]

\* the rows a list response holds, as stored
StoredRow(row) == [id |-> row.id, student_id |-> row.student_id, date |-> row.date, status |-> row.status]

\* the attendance rows that satisfy every supplied filter of a query
Satisfying(query) ==
    { a \in attendance :
        /\ query.student_id # Undefined => a.student_id = query.student_id.uuid
        /\ query.class_id # Undefined =>
              \E x \in students : x.id = a.student_id /\ x.class_id = query.class_id.uuid
        /\ query.date # Undefined => a.date = query.date.day
        /\ query.start_date # Undefined => a.date >= query.start_date.day
        /\ query.end_date # Undefined => a.date <= query.end_date.day
        /\ query.status # Undefined => a.status = query.status.string }

\* request r is answered by the list
Listed(r) == reqs[r].pc = "new" /\ reqs'[r].op = "GET /attendance" /\ reqs'[r].code = 200

\* C15: the list returns exactly the rows that satisfy every supplied filter (all
\* of them when the page is not cut by limit and offset), by date descending then
\* creation time descending; with class_id supplied every row returned is of a
\* student of that class.
C15_ListReturnsTheFilteredRows ==
    [][\A r \in Requests :
          Listed(r) =>
              LET query == reqs'[r].arg
                  data == reqs'[r].data.data
                  returned == { StoredRow(data[i]) : i \in 1..Len(data) }
              IN  /\ returned \subseteq Satisfying(query)
                  /\ (query.limit = Undefined /\ query.offset = Undefined) => returned = Satisfying(query)
                  /\ \A i, j \in 1..Len(data) :
                        i < j => \/ data[i].date > data[j].date
                                 \/ data[i].date = data[j].date /\ data[i].created_at >= data[j].created_at
                  /\ query.class_id # Undefined =>
                        \A i \in 1..Len(data) :
                            \E x \in students : x.id = data[i].student_id /\ x.class_id = query.class_id.uuid
    ]_vars

\* the number a query parameter denotes, or its default
Supplied(parameter, default) == IF parameter = Undefined THEN default ELSE NumberOf(parameter.text)

\* C16: with limit L and offset O from the query (100 and 0 when absent) the
\* list holds the rows at positions O to O + L - 1 of the ordered result, never
\* more than L rows, and the pagination echo reports L and O.
C16_PageIsOffsetToOffsetPlusLimit ==
    [][\A r \in Requests :
          Listed(r) =>
              LET query == reqs'[r].arg
                  L == Supplied(query.limit, 100)
                  O == Supplied(query.offset, 0)
                  data == reqs'[r].data.data
                  total == Cardinality(FilterRows(attendance, query))
                  upto == IF O + L < total THEN O + L ELSE total
              IN  /\ Len(data) <= L
                  /\ Len(data) = (IF upto > O THEN upto - O ELSE 0)
                  /\ \E ordered \in Orderings(FilterRows(attendance, query)) :
                        \A i \in 1..Len(data) : StoredRow(data[i]) = ordered[O + i]
                  /\ reqs'[r].data.pagination = [limit |-> L, offset |-> O]
    ]_vars

\* C15 (what the list does do): without class_id the list returns exactly the
\* rows that satisfy the other filters, in the order stated.
C15_FiltersOfAttendanceColumns ==
    [][\A r \in Requests :
          (Listed(r) /\ reqs'[r].arg.class_id = Undefined) =>
              LET query == reqs'[r].arg
                  data == reqs'[r].data.data
                  returned == { StoredRow(data[i]) : i \in 1..Len(data) }
              IN  /\ returned \subseteq Satisfying(query)
                  /\ (query.limit = Undefined /\ query.offset = Undefined) => returned = Satisfying(query)
                  /\ \A i, j \in 1..Len(data) :
                        i < j => \/ data[i].date > data[j].date
                                 \/ data[i].date = data[j].date /\ data[i].created_at >= data[j].created_at
    ]_vars

\* C16 (what the list does do): with no offset in the query the page is the
\* first L rows and the echo reports L and 0.
C16_PageWithoutOffset ==
    [][\A r \in Requests :
          (Listed(r) /\ reqs'[r].arg.offset = Undefined) =>
              LET query == reqs'[r].arg
                  L == Supplied(query.limit, 100)
                  data == reqs'[r].data.data
                  total == Cardinality(FilterRows(attendance, query))
              IN  /\ Len(data) = (IF L < total THEN L ELSE total)
                  /\ reqs'[r].data.pagination = [limit |-> L, offset |-> 0]
    ]_vars

\* the months a period selects
MonthsOf(period) ==
    IF period = Undefined THEN 1
    ELSE IF period.string = "3months" THEN 3
    ELSE IF period.string \in {"6months", "semester"} THEN 6
    ELSE IF period.string = "1year" THEN 12
    ELSE 1

ExportOps == {"GET /export/attendance", "GET /export/students"}

\* request r is answered by an export
Exported(r) == reqs[r].pc = "new" /\ reqs'[r].op \in ExportOps /\ reqs'[r].code = 200

\* C18: both exports honour the period selector (the range they report and
\* export starts the selected number of months before today) and, when json is
\* requested, return the filtered rows as data instead of a spreadsheet.
C18_ExportsHonourPeriodAndFormat ==
    [][\A r \in Requests :
          Exported(r) =>
              LET query == reqs'[r].arg
                  response == reqs'[r].data
                  start == Now - MonthsOf(query.period) * DaysInMonth
              IN  /\ "date_range" \in DOMAIN response
                  /\ response.date_range = [start |-> start, end |-> Now]
                  /\ reqs'[r].op = "GET /export/attendance" =>
                        { response.data[i].date : i \in 1..Len(response.data) } =
                            { a.date : a \in { x \in attendance :
                                                 /\ x.date >= start /\ x.date <= Now
                                                 /\ query.student_id # Undefined =>
                                                       x.student_id = query.student_id.uuid } }
                  /\ query.format_type = [string |-> "json"] <=> response.format = "json"
    ]_vars

\* C18 (what the exports do): the attendance export honours the period selector
\* and the json format.
C18_AttendanceExportHonoursPeriodAndFormat ==
    [][\A r \in Requests :
          (Exported(r) /\ reqs'[r].op = "GET /export/attendance") =>
              LET query == reqs'[r].arg
                  response == reqs'[r].data
                  start == Now - MonthsOf(query.period) * DaysInMonth
              IN  /\ response.date_range = [start |-> start, end |-> Now]
                  /\ { response.data[i].date : i \in 1..Len(response.data) } =
                        { a.date : a \in { x \in attendance :
                                             /\ x.date >= start /\ x.date <= Now
                                             /\ query.student_id # Undefined =>
                                                   x.student_id = query.student_id.uuid } }
                  /\ query.format_type = [string |-> "json"] <=> response.format = "json"
    ]_vars

\* C21: in every reachable state each stored class name has length 1..50 and
\* each stored student name has length 2..100, whichever write path created the
\* row (the routes or the front end's forms).
C21_StoredNamesPassedValidation ==
    /\ \A c \in classes : Len(c.class_name) >= 1 /\ Len(c.class_name) <= 50
    /\ \A x \in students : Len(x.name) >= 2 /\ Len(x.name) <= 100

NamingRouteOps == {"POST /classes", "PUT /classes", "POST /students", "PUT /students"}

\* C21 (what the routes do): a step of a validating route leaves every stored
\* name within the lengths.
C21_RoutesStoreValidatedNames ==
    [][(C21_StoredNamesPassedValidation /\ \E r \in Requests : Stepped(r) /\ reqs'[r].op \in NamingRouteOps) =>
          /\ \A c \in classes' : Len(c.class_name) >= 1 /\ Len(c.class_name) <= 50
          /\ \A x \in students' : Len(x.name) >= 2 /\ Len(x.name) <= 100
    ]_vars

\* request r is answered with chart data
Charted(r) == reqs[r].pc = "new" /\ reqs'[r].op = "GET /attendance/charts" /\ reqs'[r].code = 200

\* the window size a chart query asks for
WindowOf(query) == IF query.days = Undefined THEN 30 ELSE NumberOf(query.days.text)

\* the stored records inside the window of a chart query that match its filters
InWindow(query) ==
    { a \in attendance :
        /\ Now - WindowOf(query) <= a.date /\ a.date <= Now
        /\ query.student_id # Undefined => a.student_id = query.student_id.uuid
        /\ query.class_id # Undefined =>
              \E x \in students : x.id = a.student_id /\ x.class_id = query.class_id.uuid }

\* chart data that counts exactly the records of a set, each once
CountsExactly(chart, counted) ==
    /\ \A t \in Statuses : chart.statusCounts[t] = Cardinality({ a \in counted : a.status = t })
    /\ { chart.daily[k].date : k \in 1..Len(chart.daily) } = { a.date : a \in counted }
    /\ \A k \in 1..Len(chart.daily), t \in Statuses :
          chart.daily[k].counts[t] =
              Cardinality({ a \in counted : a.date = chart.daily[k].date /\ a.status = t })
    /\ { chart.trends[k].date : k \in 1..Len(chart.trends) } = { a.date : a \in counted }
    /\ \A k \in 1..Len(chart.trends) :
          chart.trends[k].total = Cardinality({ a \in counted : a.date = chart.trends[k].date })

\* C22: the chart aggregation for window size N (default 30) and today T counts
\* exactly the stored records with T - N <= date <= T that match the class and
\* student filters, each once, in statusCounts, daily and trends.
C22_ChartCountsWindowAndFilters ==
    [][\A r \in Requests :
          Charted(r) => CountsExactly(reqs'[r].data, InWindow(reqs'[r].arg))
    ]_vars

\* C22 (what the charts do): without class_id the aggregation counts exactly the
\* records of the window that match the student filter.
C22_ChartCountsWindow ==
    [][\A r \in Requests :
          (Charted(r) /\ reqs'[r].arg.class_id = Undefined) =>
              CountsExactly(reqs'[r].data, InWindow(reqs'[r].arg))
    ]_vars

\* the position at which a date first occurs in the aggregated rows
FirstOccurrence(date) == CHOOSE i \in 1..Len(rows) : rows[i].date = date /\ \A j \in 1..(i - 1) : rows[j].date # date

\* C23: trends has an entry for a date if and only if an aggregated row has that
\* date; no date appears twice; every entry's total is at least 1; the entries
\* are in the order in which their dates first occur in the rows, which is
\* ascending date order.
C23_TrendsOnePerDateAscending ==
    chartData # Null =>
        LET trends == chartData.trends
        IN  /\ { trends[k].date : k \in 1..Len(trends) } = { rows[i].date : i \in 1..Len(rows) }
            /\ \A k, l \in 1..Len(trends) : k # l => trends[k].date # trends[l].date
            /\ \A k \in 1..Len(trends) : trends[k].total >= 1
            /\ \A k, l \in 1..Len(trends) :
                  k < l => /\ FirstOccurrence(trends[k].date) < FirstOccurrence(trends[l].date)
                           /\ trends[k].date < trends[l].date

\* the chart of the default window over the whole school: four dates, two rows
\* on the last of them, and no entry for the days without a record
C23_Witness ==
    /\ chartData # Null
    /\ Len(rows) = 5
    /\ Len(chartData.trends) = 4
    /\ chartData.trends[4].total = 2
    /\ \A k \in 1..4 : chartData.trends[k].date # subDays(Now, 1)

\* what the attendance table records: who, when, which status
Content(att) == { [student_id |-> a.student_id, date |-> a.date, status |-> a.status] : a \in att }

\* C24: a single attendance write for (s, d) leaves every record of another key
\* and all class and student rows unchanged; and a write to another key commutes
\* with it: the other write first, then this one, ends with the same records as
\* this one first, then the other.
C24_SingleWriteFrame ==
    [][\A r \in Requests :
          (Stepped(r) /\ reqs'[r].op \in SingleWriteOps) =>
              LET v == reqs'[r].arg
              IN  /\ { a \in attendance' : KeyOf(a) # KeyOf(v) } = { a \in attendance : KeyOf(a) # KeyOf(v) }
                  /\ classes' = classes /\ students' = students
                  /\ reqs'[r].code = 201 =>
                        \A w \in AttendanceValues :
                            LET other == Upsert(attendance, <<w>>, nextAttendanceId, students)
                                otherThenThis == Upsert(other.table, <<v>>, other.next, students)
                                thisThenOther == Upsert(attendance', <<w>>, nextAttendanceId', students')
                            IN  (KeyOf(w) # KeyOf(v) /\ ~other.error) =>
                                    /\ ~otherThenThis.error /\ ~thisThenOther.error
                                    /\ Content(otherThenThis.table) = Content(thisThenOther.table)
    ]_vars

\* two single writes to different keys succeeded, the second beside a record of
\* the same student on another date, which kept its status
C24_Witness ==
    \E r, q \in Requests :
        /\ Done(r) /\ reqs[r].op = "POST /attendance" /\ reqs[r].code = 201
        /\ Done(q) /\ reqs[q].op \in SingleWriteOps /\ reqs[q].code = 201
        /\ reqs[r].arg.student_id = reqs[q].arg.student_id
        /\ reqs[r].arg.date # reqs[q].arg.date
        /\ reqs[r].arg.status # reqs[q].arg.status
        /\ Content(attendance) = { reqs[r].arg, reqs[q].arg }

\* C25: two requests to a route that differ only in the message of the store's
\* error get the same failure response; the error middleware's response holds
\* the error's message only when NODE_ENV is 'development'.
C25_FailureBodyHidesStoreError ==
    /\ \A r, q \in Requests :
          (/\ Done(r) /\ Done(q) /\ reqs[r].code = 500 /\ reqs[q].code = 500
           /\ reqs[r].op \in DOMAIN CatchMessages
           /\ reqs[r].op = reqs[q].op /\ reqs[r].arg = reqs[q].arg) =>
              reqs[r].body = reqs[q].body
    /\ \A r \in Requests :
          (Done(r) /\ reqs[r].op = "error middleware") =>
              /\ reqs[r].code = 500
              /\ reqs[r].body.message = reqs[r].arg.message => nodeEnv = "development"
              /\ nodeEnv = "development" => reqs[r].body.message = reqs[r].arg.message

\* the same write failed twice at the store, with two different messages
C25_Witness ==
    /\ fault[1] # fault[2]
    /\ failed = {1, 2}
    /\ reqs[1].op = "POST /attendance" /\ reqs[2].op = "POST /attendance"
    /\ reqs[1].arg = reqs[2].arg
    /\ reqs[1].code = 500 /\ reqs[2].code = 500

\* the error middleware answered in a production process
C25_MiddlewareInProduction ==
    \E r \in Requests : Done(r) /\ reqs[r].op = "error middleware" /\ nodeEnv = "production"

\* C26: the bulk route answers 'One or more students not found' only if a
\* submitted student_id is absent from the store; a batch all of whose students
\* exist passes the existence check, also when a student occurs twice in it.
C26_BulkNotFoundOnlyIfAbsent ==
    [][\A r \in Requests :
          (reqs[r].pc = "new" /\ Stepped(r) /\ reqs'[r].op = "POST /attendance/bulk") =>
              LET batch == reqs'[r].arg
                  absent == { i \in 1..Len(batch) : batch[i].student_id \notin Ids(students) }
              IN  /\ reqs'[r].code = 400 => absent # {}
                  /\ absent = {} => reqs'[r].pc = "awaiting"
    ]_vars

\* C26 (what the route does): a batch of pairwise distinct students is answered
\* 'One or more students not found' if and only if one of them is absent.
C26_DistinctStudentsNotFoundIffAbsent ==
    [][\A r \in Requests :
          (reqs[r].pc = "new" /\ Stepped(r) /\ reqs'[r].op = "POST /attendance/bulk") =>
              LET batch == reqs'[r].arg
                  absent == { i \in 1..Len(batch) : batch[i].student_id \notin Ids(students) }
              IN  (\A i, j \in 1..Len(batch) : i # j => batch[i].student_id # batch[j].student_id) =>
                      (reqs'[r].code = 400 <=> absent # {})
    ]_vars

AttendanceWriteOps == SingleWriteOps \cup BulkWriteOps

\* C27: an attendance write that hits an existing (student, date) record changes
\* only that record's status: its id, student_id, date and creation time are the
\* same before and after, and the table grows by the records of the write that
\* hit nothing (a single write that hits leaves the number of records as it was).
C27_HitChangesStatusOnly ==
    [][\A r \in Requests :
          (Stepped(r) /\ reqs'[r].op \in AttendanceWriteOps /\ reqs'[r].code = 201) =>
              LET batch == BatchOf(reqs'[r])
                  hit == { a \in attendance : KeyOf(a) \in BatchKeys(reqs'[r]) }
                  fresh == { k \in BatchKeys(reqs'[r]) : RecordsOf(attendance, k) = {} }
              IN  /\ \A a \in hit :
                        \E b \in attendance' :
                            /\ b.id = a.id /\ b.student_id = a.student_id /\ b.date = a.date
                            /\ createdAt'[b.id] = createdAt[a.id]
                            /\ \E i \in 1..Len(batch) : KeyOf(batch[i]) = KeyOf(a) /\ b.status = batch[i].status
                  /\ Cardinality(attendance') = Cardinality(attendance) + Cardinality(fresh)
                  /\ (reqs'[r].op \in SingleWriteOps /\ hit # {}) =>
                        Cardinality(attendance') = Cardinality(attendance)
    ]_vars

\* the route wrote a status over the record an earlier write had created for the
\* same student and date with the other status; the record is still the first row
C27_Witness ==
    \E r, q \in Requests :
        /\ Done(q) /\ reqs[q].op = "db.recordAttendance" /\ reqs[q].code = 201
        /\ Done(r) /\ reqs[r].op = "POST /attendance" /\ reqs[r].code = 201
        /\ KeyOf(reqs[r].arg) = KeyOf(reqs[q].arg)
        /\ reqs[q].arg.status = "Present" /\ reqs[r].arg.status = "Absent"
        /\ attendance = { [id |-> 1, student_id |-> reqs[r].arg.student_id, date |-> reqs[r].arg.date,
                           status |-> "Absent"] }
        /\ createdAt[1] = 1 /\ nextAttendanceId = 2

RECURSIVE OneByOne(_, _, _, _, _)
\* the table after the single writes of records[order[i]], ..., one statement each
OneByOne(att, records, order, i, next) ==
    IF i > Len(order) THEN att
    ELSE LET res == Upsert(att, <<records[order[i]]>>, next, students)
         IN  OneByOne(res.table, records, order, i + 1, res.next)

\* the orders in which n writes can be performed
OrdersOf(n) == { order \in [1..n -> 1..n] : \A i, j \in 1..n : i # j => order[i] # order[j] }

\* C28: a successful bulk write with one date over pairwise distinct existing
\* students leaves the same set of (student, date, status) records as performing
\* the single writes of its records one by one, in any order.
C28_BulkEqualsSingles ==
    [][\A r \in Requests :
          (Stepped(r) /\ reqs'[r].op \in BulkWriteOps /\ reqs'[r].code = 201) =>
              LET batch == reqs'[r].arg
              IN  /\ \A i, j \in 1..Len(batch) : i # j => batch[i].student_id # batch[j].student_id
                  /\ \A order \in OrdersOf(Len(batch)) :
                        Content(attendance') =
                            Content(OneByOne(attendance, batch, order, 1, nextAttendanceId))
    ]_vars

\* a bulk write of two students succeeded on a table that held the record of one
\* of them for that date, and nothing else was written since
C28_Witness ==
    \E r, q \in Requests :
        /\ Done(q) /\ reqs[q].op = "POST /attendance" /\ reqs[q].code = 201
        /\ Done(r) /\ reqs[r].op = "db.bulkRecordAttendance" /\ reqs[r].code = 201
        /\ Len(reqs[r].arg) = 2
        /\ reqs[r].arg[2].student_id = reqs[q].arg.student_id
        /\ reqs[r].arg[2].date = reqs[q].arg.date
        /\ reqs[r].arg[1].status # reqs[r].arg[2].status
        /\ Content(attendance) = { reqs[r].arg[1], reqs[r].arg[2] }

\* the class that PUT /api/classes/:id names holds the (class_name, grade) it is sent
OwnNameGrade(id, value) == \E c \in classes : c.id = id /\ SameNameGrade(c, value)

\* the classes besides id that hold the (class_name, grade)
OthersWith(id, value) == { c \in classes : c.id # id /\ SameNameGrade(c, value) }

\* request r passes the validation of PUT /api/classes/:id and runs its duplicate lookup
PutLookup(r) ==
    /\ reqs[r].pc = "new" /\ Stepped(r)
    /\ reqs'[r].op = "PUT /classes" /\ reqs'[r].arg.value # Null

\* request r runs the update of PUT /api/classes/:id
PutUpdate(r) == reqs[r].op = "PUT /classes" /\ reqs[r].pc = "awaiting" /\ Stepped(r)

\* C29: updating an existing class with its own current (class_name, grade) is
\* accepted and leaves the store unchanged, the duplicate check leaving out the
\* class being updated, while an update to the (class_name, grade) of a
\* different existing class is rejected.
C29_SelfUpdateAcceptedOtherRejected ==
    [][\A r \in Requests :
          /\ PutLookup(r) =>
                LET id == reqs'[r].arg.id
                    value == reqs'[r].arg.value
                IN  /\ OwnNameGrade(id, value) => reqs'[r].pc = "awaiting"
                    /\ OthersWith(id, value) # {} => reqs'[r].pc = "done" /\ reqs'[r].code = 400
          /\ (PutUpdate(r) /\ OwnNameGrade(reqs[r].arg.id, reqs[r].arg.value)) =>
                reqs'[r].code = 200 /\ classes' = classes
    ]_vars

\* the same where (class_name, grade) is held by one class at most besides the
\* class being updated: the class itself never counts as a duplicate, one other
\* holder is a duplicate
C29_NeverConflictsWithItself ==
    [][\A r \in Requests :
          /\ PutLookup(r) =>
                LET id == reqs'[r].arg.id
                    value == reqs'[r].arg.value
                IN  /\ (OwnNameGrade(id, value) /\ OthersWith(id, value) = {}) => reqs'[r].pc = "awaiting"
                    /\ Cardinality(OthersWith(id, value)) = 1 => reqs'[r].pc = "done" /\ reqs'[r].code = 400
                    /\ reqs'[r].pc = "done" => OthersWith(id, value) # {}
          /\ (PutUpdate(r) /\ OwnNameGrade(reqs[r].arg.id, reqs[r].arg.value)) =>
                reqs'[r].code = 200 /\ classes' = classes
    ]_vars

\* a class was updated with its own (class_name, grade)
C29_SelfUpdated ==
    \E r \in Requests :
        /\ Done(r) /\ reqs[r].op = "PUT /classes" /\ reqs[r].code = 200
        /\ OwnNameGrade(reqs[r].arg.id, reqs[r].arg.value)
        /\ classes = { [id |-> 1, class_name |-> "3A", grade |-> 3],
                       [id |-> 2, class_name |-> "4A", grade |-> 4] }

\* C30: every request to an attendance or class route is answered exactly once
\* whatever the store returns at each step (every request reaches its response,
\* whichever requests before it have failed, and a response once given is
\* never replaced).
C30_EveryRequestAnsweredOnce ==
    /\ \A r \in Requests : <>Done(r)
    /\ [][\A r \in Requests : Done(r) => reqs'[r] = reqs[r]]_vars

\* a bulk write met a failing store call, was answered 500 and wrote nothing,
\* and the request after it was served to its end
C30_Witness ==
    \E r, q \in Requests :
        /\ r < q
        /\ Done(r) /\ reqs[r].op = "POST /attendance/bulk" /\ reqs[r].code = 500
        /\ r \in failed /\ attendance = {}
        /\ Done(q) /\ reqs[q].op = "POST /classes" /\ reqs[q].code = 201

====
